---- MODULE Spec2Model ----
(***************************************************************************)
(* A model of the metric-derivation core of mysqld_exporter:               *)
(*   collector/collector.go     parseStatus, ParseGTID                     *)
(*   collector/slave_status.go  ScrapeSlaveStatus.Scrape                   *)
(*   master status scraper      ScrapeMasterStatus.Scrape                  *)
(*                                                                         *)
(* A Go string is modelled as a sequence of one-character strings, so that *)
(* splitting, trimming and numeral parsing are computed character by       *)
(* character as the code does.  An error value is a record with a "kind"   *)
(* field; the nil error is Nil.                                            *)
(***************************************************************************)
EXTENDS Integers, Sequences, FiniteSets, TLC

VARIABLES
    pc,               \* position of the running call
    s,                \* ParseGTID: the argument
    gtidRet,          \* ParseGTID: the returned (res, err) pair
    data,             \* parseStatus: the argument
    statusRet,        \* parseStatus: the returned (value, ok) pair
    scraper,          \* Name() of the scraper whose Scrape runs ("": none)
    result,           \* the result set of the last successful query: [cols, nrows]
    rowIdx,           \* number of rows fetched so far by Next()
    scanArgs,         \* the raw values of the row fetched last
    colIdx,           \* slave scrape: index of the column to dispatch next
    filename,         \* master scrape: scanned File
    position,         \* master scrape: scanned Position
    executedGTidSet,  \* master scrape: scanned Executed_Gtid_Set
    attempts,         \* slave scrape: the query executions made so far, in order
    query,            \* slave scrape: index into slaveStatusQueries
    suffix,           \* slave scrape: index into slaveStatusQuerySuffixes (0: bare query)
    slaveStatusRows,  \* the handle held by slaveStatusRows / masterStatusRow (NoRows: nil)
    openRows,         \* handles a query opened and nothing closed yet
    labels,           \* slave scrape: the contextual label values of the row
    value,            \* master scrape: the file number parsed from File
    GTIDs,            \* the sets ParseGTID returned, whose samples are being sent
    gtidIdx,          \* index into GTIDs of the set whose samples are sent next
    ch,               \* the sample sink: samples sent and received so far, in order
    err,              \* the local variable err of Scrape
    ret               \* the error Scrape returned, once pc = "returned"

vars == <<pc, s, gtidRet, data, statusRet, scraper, result, rowIdx, scanArgs, colIdx,
          filename, position, executedGTidSet, attempts, query, suffix,
          slaveStatusRows, openRows, labels, value, GTIDs, gtidIdx, ch, err, ret>>

gtidVars == <<s, gtidRet>>
statusVars == <<data, statusRet>>
rowVars == <<result, rowIdx, scanArgs, colIdx, labels>>
masterVars == <<filename, position, executedGTidSet>>
queryVars == <<attempts, query, suffix, slaveStatusRows, openRows>>
sendVars == <<value, GTIDs, gtidIdx>>
scrapeVars == <<scraper, rowVars, masterVars, queryVars, sendVars, ch, err, ret>>

Nil == [kind |-> "nil"]

(***************************************************************************)
(* Bounds of the model.                                                    *)
(***************************************************************************)
\* longest enumerated ParseGTID argument
MaxLen == 5
\* longest enumerated parseStatus argument
MaxStatusLen == 4
\* most rows in a modelled result set
MaxRows == 2

(***************************************************************************)
(* Strings.                                                                *)
(***************************************************************************)
Digits == {"0", "1", "2", "3", "4", "5", "6", "7", "8", "9"}

DigitVal(c) ==
    CASE c = "0" -> 0 [] c = "1" -> 1 [] c = "2" -> 2 [] c = "3" -> 3
      [] c = "4" -> 4 [] c = "5" -> 5 [] c = "6" -> 6 [] c = "7" -> 7
      [] c = "8" -> 8 [] c = "9" -> 9

\* A string is the sequence of its characters, each a one-character string.
\* A character the language has no notation for is written by its code
\* point: "U+000B" is the vertical tab.

\* unicode.IsSpace, the White_Space property
IsSpace(c) ==
    c \in {" ", "\t", "\n", "\r", "\f", "U+000B", "U+0085", "U+00A0", "U+1680",
           "U+2000", "U+2001", "U+2002", "U+2003", "U+2004", "U+2005", "U+2006",
           "U+2007", "U+2008", "U+2009", "U+200A", "U+2028", "U+2029", "U+202F",
           "U+205F", "U+3000"}

Contains(str, c) == \E i \in 1..Len(str) : str[i] = c

\* strings.Split(str, sep) for a one-character separator: n separators give n+1 parts
RECURSIVE Split(_, _)
Split(str, sep) ==
    IF ~Contains(str, sep)
    THEN <<str>>
    ELSE LET i == CHOOSE k \in 1..Len(str) :
                      str[k] = sep /\ \A j \in 1..(k - 1) : str[j] # sep
         IN  <<SubSeq(str, 1, i - 1)>> \o Split(SubSeq(str, i + 1, Len(str)), sep)

\* strings.TrimSpace
RECURSIVE TrimLeft(_)
TrimLeft(str) ==
    IF str # <<>> /\ IsSpace(Head(str)) THEN TrimLeft(Tail(str)) ELSE str

RECURSIVE TrimRight(_)
TrimRight(str) ==
    IF str # <<>> /\ IsSpace(str[Len(str)])
    THEN TrimRight(SubSeq(str, 1, Len(str) - 1))
    ELSE str

TrimSpace(str) == TrimRight(TrimLeft(str))

\* value of a run of decimal digits
RECURSIVE DecimalValue(_)
DecimalValue(str) ==
    IF str = <<>> THEN 0
    ELSE 10 * DecimalValue(SubSeq(str, 1, Len(str) - 1)) + DigitVal(str[Len(str)])

AllDigits(str) == \A i \in 1..Len(str) : str[i] \in Digits

\* The element of a set of one element.  The({e(x) : x \in {v}}) is e(v),
\* with v computed once however often e refers to it.
The(S) == CHOOSE x \in S : TRUE

\* a digit run without its leading zeros
StripZeros(str) ==
    The({ IF \A i \in 1..Len(d) : d[i] = "0" THEN <<>>
          ELSE SubSeq(d, CHOOSE i \in 1..Len(d) :
                             d[i] # "0" /\ \A j \in 1..(i - 1) : d[j] = "0",
                      Len(d)) : d \in {str} })

\* a >= b for two digit runs of one length
DigitsGeq(a, b) ==
    \E x \in {a}, y \in {b} :
        \/ x = y
        \/ \E i \in 1..Len(x) :
              /\ DigitVal(x[i]) > DigitVal(y[i])
              /\ \A j \in 1..(i - 1) : x[j] = y[j]

\* the number a digit run denotes is greater than the one limit denotes
DigitsExceed(str, limit) ==
    LET d == StripZeros(str) IN
    \/ Len(d) > Len(limit)
    \/ Len(d) = Len(limit) /\ d # limit /\ DigitsGeq(d, limit)

\* the size of int, which bitSize 0 selects, on a 64-bit build
IntSize == 64

\* 2^(IntSize-1) - 1, the greatest int, and 2^(IntSize-1), written in digits
MaxIntDigits ==
    IF IntSize = 64
    THEN <<"9", "2", "2", "3", "3", "7", "2", "0", "3", "6", "8", "5", "4", "7",
           "7", "5", "8", "0", "7">>
    ELSE <<"2", "1", "4", "7", "4", "8", "3", "6", "4", "7">>
MinIntDigits ==
    IF IntSize = 64
    THEN <<"9", "2", "2", "3", "3", "7", "2", "0", "3", "6", "8", "5", "4", "7",
           "7", "5", "8", "0", "8">>
    ELSE <<"2", "1", "4", "7", "4", "8", "3", "6", "4", "8">>

\* strconv.ParseInt(str, 10, 0): an optional sign, then one or more decimal
\* digits (no underscore, the base being given), denoting a number within
\* int; outside it the call fails with ErrRange.  The value of a numeral
\* within int is computed in the integers of the checker, which end at
\* 2^31 - 1.
ParseInt(str) ==
    LET signed == str # <<>> /\ str[1] \in {"+", "-"}
        neg    == signed /\ str[1] = "-"
        body   == IF signed THEN Tail(str) ELSE str
    IN  IF body = <<>> \/ ~AllDigits(body)
        THEN [ok |-> FALSE, v |-> 0]
        ELSE IF DigitsExceed(body, IF neg THEN MinIntDigits ELSE MaxIntDigits)
        THEN [ok |-> FALSE, v |-> 0]
        ELSE [ok |-> TRUE,
              v  |-> IF neg THEN 0 - DecimalValue(body) ELSE DecimalValue(body)]

(***************************************************************************)
(* collector.go: ParseGTID                                                 *)
(***************************************************************************)
TransactionDetail(start, end) == [Start |-> start, End |-> end]

\* the error results of ParseGTID: the nil slice and the error
GtidError(e) == [res |-> <<>>, err |-> e]

\* ParseRange with the End of a single-number range left as the previous pass
\* stored it (t is shared by the passes of one item).
ParseRangeStaleEnd(part, item, t) ==
    LET sss == Split(part, "-") IN
    IF Len(sss) > 2
    THEN [err |-> [kind |-> "cut by '-' more than 2 item", arg |-> item], t |-> t]
    ELSE LET st == ParseInt(sss[1]) IN
         IF ~st.ok
         THEN [err |-> [kind |-> "parse to int64 failed", arg |-> sss[1]], t |-> t]
         ELSE IF Len(sss) = 1
              THEN [err |-> Nil, t |-> TransactionDetail(st.v, t.End)]
              ELSE LET en == ParseInt(sss[2]) IN
                   IF ~en.ok
                   THEN [err |-> [kind |-> "parse to int64 failed", arg |-> sss[1]],
                         t |-> t]
                   ELSE [err |-> Nil, t |-> TransactionDetail(st.v, en.v)]

\* ParseRange with the two ends of a range put in increasing order.
ParseRangeSorted(part, item, t) ==
    LET sss == Split(part, "-") IN
    IF Len(sss) > 2
    THEN [err |-> [kind |-> "cut by '-' more than 2 item", arg |-> item], t |-> t]
    ELSE LET st == ParseInt(sss[1]) IN
         IF ~st.ok
         THEN [err |-> [kind |-> "parse to int64 failed", arg |-> sss[1]], t |-> t]
         ELSE IF Len(sss) = 1
              THEN [err |-> Nil, t |-> TransactionDetail(st.v, st.v)]
              ELSE LET en == ParseInt(sss[2]) IN
                   IF ~en.ok
                   THEN [err |-> [kind |-> "parse to int64 failed", arg |-> sss[1]],
                         t |-> t]
                   ELSE [err |-> Nil,
                         t |-> IF st.v <= en.v
                               THEN TransactionDetail(st.v, en.v)
                               ELSE TransactionDetail(en.v, st.v)]

\* One pass of the inner loop (lines 113-130): the range text ss[i] is parsed
\* into t, which is declared once per item and overwritten by each pass.
ParseRange(part, item, t) ==
    LET sss == Split(part, "-") IN
    IF Len(sss) > 2
    THEN [err |-> [kind |-> "cut by '-' more than 2 item", arg |-> item], t |-> t]
    ELSE LET st == ParseInt(sss[1]) IN
         IF ~st.ok
         THEN [err |-> [kind |-> "parse to int64 failed", arg |-> sss[1]], t |-> t]
         ELSE IF Len(sss) = 1
              THEN [err |-> Nil, t |-> TransactionDetail(st.v, st.v)]
              ELSE LET en == ParseInt(sss[2]) IN
                   IF ~en.ok
                   THEN [err |-> [kind |-> "parse to int64 failed", arg |-> sss[1]],
                         t |-> t]
                   ELSE [err |-> Nil, t |-> TransactionDetail(st.v, en.v)]

\* The inner loop over ss[1..] (lines 112-131), from part i on, for the set g.
RECURSIVE ParseRanges(_, _, _, _, _)
ParseRanges(ss, i, item, t, g) ==
    IF i > Len(ss)
    THEN [err |-> Nil, g |-> g]
    ELSE LET r == ParseRange(ss[i], item, t) IN
         IF r.err # Nil
         THEN [err |-> r.err, g |-> g]
         ELSE ParseRanges(ss, i + 1, item, r.t,
                          [g EXCEPT !.LastTransaction = r.t.End,
                                    !.Transactions = Append(@, r.t)])

\* One pass of the outer loop (lines 102-133) for one comma-separated item.
ParseItem(rawItem) ==
    LET item == TrimSpace(rawItem)
        ss   == Split(item, ":")
    IN  IF Len(ss) < 2
        THEN [err |-> [kind |-> "transaction item is too little", arg |-> item],
              g |-> Nil]
        ELSE LET g0 == [ServerId |-> ss[1], FirstTransaction |-> 0,
                        LastTransaction |-> 0, Transactions |-> <<>>]
                 r  == ParseRanges(ss, 2, item, TransactionDetail(0, 0), g0)
             IN  IF r.err # Nil
                 THEN [err |-> r.err, g |-> Nil]
                 ELSE [err |-> Nil,
                       g   |-> [r.g EXCEPT !.FirstTransaction =
                                               r.g.Transactions[1].Start]]

\* ParseItems returning the sets parsed before the failing item with the error.
RECURSIVE ParseItemsPartial(_, _, _)
ParseItemsPartial(gtidItems, k, res) ==
    IF k > Len(gtidItems)
    THEN [res |-> res, err |-> Nil]
    ELSE LET r == ParseItem(gtidItems[k]) IN
         IF r.err # Nil
         THEN [res |-> res, err |-> r.err]
         ELSE ParseItemsPartial(gtidItems, k + 1, Append(res, r.g))

\* The outer loop (lines 101-136) from item k on, res holding the sets so far.
RECURSIVE ParseItems(_, _, _)
ParseItems(gtidItems, k, res) ==
    IF k > Len(gtidItems)
    THEN [res |-> res, err |-> Nil]
    ELSE LET r == ParseItem(gtidItems[k]) IN
         IF r.err # Nil
         THEN GtidError(r.err)
         ELSE ParseItems(gtidItems, k + 1, Append(res, r.g))

ParseGTID(str) == ParseItems(Split(str, ","), 1, <<>>)

(***************************************************************************)
(* Inputs of ParseGTID: every string over GtidChars up to MaxLen           *)
(* characters, and the longer strings of GtidSamples.                      *)
(***************************************************************************)
GtidChars == {"a", "1", "2", ":", "-", ",", " "}

StringsOver(chars, n) == UNION {[1..k -> chars] : k \in 0..n}

GtidSamples ==
    { <<"a", ":", "2", "3">>,
      <<"a", ":", "1", "-", "5">>,
      <<"a", ":", "1", "-", "5", "-", "6">>,
      <<"a", ":", "1", "-", "A">>,
      <<"a", ":", "1", "-", "3", ":", "1", "1", ":", "4", "7", "-", "4", "9">>,
      <<"a", ":", "1", "-", "3", ",", " ", "b", ":", "1", "-", "1", "9">>,
      <<"a", ":", "1", "-", "3", ",", "b", ":", "x">>,
      <<"a", ":", "x", ",", "b", ":", "1", "-", "3">>,
      <<"a", ":", "1", ",", "b", ",", "a", ":", "2">>,
      <<"a", ":", "1", "-", "2", ",", "a", ":", "5", "-", "9">>,
      <<"a", ":", "5", "-", "1", ":", "7">>,
      <<"a", ":", "7", "-", "9", ":", "2", ",", "b", ":", "3">>,
      <<"a", ":", "1", "-", "1", ":", "2">>,
      <<" ", "a", ":", "1", " ", ",", "\n", "b", ":", "2">>,
      <<"a", ":", "+", "1">>,
      <<"a", ":", "1", "-", "+", "2">>,
      <<"\f", "a", ":", "1", "\f", ",", "U+00A0", "b", ":", "2">>,
      <<"a", ":", "9", "2", "2", "3", "3", "7", "2", "0", "3", "6", "8", "5", "4",
        "7", "7", "5", "8", "0", "8">>,
      <<"a", ":", "1", ",", "b", ":", "1", "-", "9", "9", "2", "2", "3", "3", "7",
        "2", "0", "3", "6", "8", "5", "4", "7", "7", "5", "8", "0", "7">> }

GtidInputs == StringsOver(GtidChars, MaxLen) \cup GtidSamples

(***************************************************************************)
(* collector.go: parseStatus                                               *)
(***************************************************************************)
\* A float64 is written [sign, digits, exp]: the number
\* sign * digits * 10^exp, where digits is a run of decimal digits with no
\* zero at either end; zero has sign 0, no digit and exp 0.  The number is
\* the decimal the text denotes and stands for the float64 nearest to it.
\* What is no number has a name in the place of the digits: the infinities
\* (sign 1 and -1) and NaN.
DigitChars == <<"0", "1", "2", "3", "4", "5", "6", "7", "8", "9">>

DigitChar(n) == DigitChars[n + 1]

Zero == [sign |-> 0, digits |-> <<>>, exp |-> 0]

\* the number of zeros at the end of a digit run that has another digit
TrailingZeros(digits) ==
    The({ Len(d) - (CHOOSE i \in 1..Len(d) :
                        d[i] # "0" /\ \A j \in (i + 1)..Len(d) : d[j] = "0")
          : d \in {digits} })

\* the float64 of sign * digits * 10^exp
Normalize(sign, digits, exp) ==
    The({ IF d = <<>> \/ sign = 0 THEN Zero
          ELSE The({ [sign   |-> sign,
                      digits |-> SubSeq(d, 1, Len(d) - z),
                      exp    |-> exp + z] : z \in {TrailingZeros(d)} })
          : d \in {StripZeros(digits)} })

\* the digits of a natural number
RECURSIVE IntDigits(_)
IntDigits(n) ==
    IF n = 0 THEN <<>> ELSE Append(IntDigits(n \div 10), DigitChar(n % 10))

\* float64(n) of an integer n
Float(n) ==
    IF n >= 0 THEN Normalize(1, IntDigits(n), 0)
    ELSE Normalize(0 - 1, IntDigits(0 - n), 0)

\* math.Inf(sign) and math.NaN()
Inf(sign) == [sign |-> sign, digits |-> <<"Inf">>, exp |-> 0]
NaN == [sign |-> 0, digits |-> <<"NaN">>, exp |-> 0]

\* The letters unicode.ToLower changes, and in LowerCase, place for place,
\* what it changes them to: the capitals and the title-case letters of every
\* script.
UpperCase ==
 << "A", "B", "C", "D", "E", "F", "G", "H", "I", "J", "K", "L",
    "M", "N", "O", "P", "Q", "R", "S", "T", "U", "V", "W", "X",
    "Y", "Z", "À", "Á", "Â", "Ã", "Ä", "Å", "Æ", "Ç", "È", "É",
    "Ê", "Ë", "Ì", "Í", "Î", "Ï", "Ð", "Ñ", "Ò", "Ó", "Ô", "Õ",
    "Ö", "Ø", "Ù", "Ú", "Û", "Ü", "Ý", "Þ", "U+0100", "U+0102",
    "U+0104", "U+0106", "U+0108", "U+010A", "U+010C", "U+010E",
    "U+0110", "U+0112", "U+0114", "U+0116", "U+0118", "U+011A",
    "U+011C", "U+011E", "U+0120", "U+0122", "U+0124", "U+0126",
    "U+0128", "U+012A", "U+012C", "U+012E", "U+0130", "U+0132",
    "U+0134", "U+0136", "U+0139", "U+013B", "U+013D", "U+013F",
    "U+0141", "U+0143", "U+0145", "U+0147", "U+014A", "U+014C",
    "U+014E", "U+0150", "U+0152", "U+0154", "U+0156", "U+0158",
    "U+015A", "U+015C", "U+015E", "U+0160", "U+0162", "U+0164",
    "U+0166", "U+0168", "U+016A", "U+016C", "U+016E", "U+0170",
    "U+0172", "U+0174", "U+0176", "U+0178", "U+0179", "U+017B",
    "U+017D", "Ɓ", "Ƃ", "Ƅ", "Ɔ", "Ƈ", "Ɖ", "Ɗ", "Ƌ", "Ǝ", "Ə",
    "Ɛ", "Ƒ", "Ɠ", "Ɣ", "Ɩ", "Ɨ", "Ƙ", "Ɯ", "Ɲ", "Ɵ", "Ơ", "Ƣ",
    "Ƥ", "Ʀ", "Ƨ", "Ʃ", "Ƭ", "Ʈ", "Ư", "Ʊ", "Ʋ", "Ƴ", "Ƶ", "Ʒ",
    "Ƹ", "Ƽ", "Ǆ", "ǅ", "Ǉ", "ǈ", "Ǌ", "ǋ", "Ǎ", "Ǐ", "Ǒ", "Ǔ",
    "Ǖ", "Ǘ", "Ǚ", "Ǜ", "Ǟ", "Ǡ", "Ǣ", "Ǥ", "Ǧ", "Ǩ", "Ǫ", "Ǭ",
    "Ǯ", "Ǳ", "ǲ", "Ǵ", "Ƕ", "Ƿ", "Ǹ", "Ǻ", "Ǽ", "Ǿ", "U+0200",
    "U+0202", "U+0204", "U+0206", "U+0208", "U+020A", "U+020C",
    "U+020E", "U+0210", "U+0212", "U+0214", "U+0216", "U+0218",
    "U+021A", "U+021C", "U+021E", "U+0220", "U+0222", "U+0224",
    "U+0226", "U+0228", "U+022A", "U+022C", "U+022E", "U+0230",
    "U+0232", "U+023A", "U+023B", "U+023D", "U+023E", "U+0241",
    "U+0243", "U+0244", "U+0245", "U+0246", "U+0248", "U+024A",
    "U+024C", "U+024E", "U+0370", "U+0372", "U+0376", "U+037F",
    "Ά", "Έ", "Ή", "Ί", "Ό", "Ύ", "Ώ", "Α", "Β", "Γ", "Δ", "Ε",
    "Ζ", "Η", "Θ", "Ι", "Κ", "Λ", "Μ", "Ν", "Ξ", "Ο", "Π", "Ρ",
    "Σ", "Τ", "Υ", "Φ", "Χ", "Ψ", "Ω", "Ϊ", "Ϋ", "Ϗ", "Ϙ", "Ϛ",
    "Ϝ", "Ϟ", "Ϡ", "Ϣ", "Ϥ", "Ϧ", "Ϩ", "Ϫ", "Ϭ", "Ϯ", "ϴ", "Ϸ",
    "Ϲ", "Ϻ", "Ͻ", "Ͼ", "Ͽ", "U+0400", "U+0401", "U+0402",
    "U+0403", "U+0404", "U+0405", "U+0406", "U+0407", "U+0408",
    "U+0409", "U+040A", "U+040B", "U+040C", "U+040D", "U+040E",
    "U+040F", "U+0410", "U+0411", "U+0412", "U+0413", "U+0414",
    "U+0415", "U+0416", "U+0417", "U+0418", "U+0419", "U+041A",
    "U+041B", "U+041C", "U+041D", "U+041E", "U+041F", "U+0420",
    "U+0421", "U+0422", "U+0423", "U+0424", "U+0425", "U+0426",
    "U+0427", "U+0428", "U+0429", "U+042A", "U+042B", "U+042C",
    "U+042D", "U+042E", "U+042F", "U+0460", "U+0462", "U+0464",
    "U+0466", "U+0468", "U+046A", "U+046C", "U+046E", "U+0470",
    "U+0472", "U+0474", "U+0476", "U+0478", "U+047A", "U+047C",
    "U+047E", "Ҁ", "Ҋ", "Ҍ", "Ҏ", "Ґ", "Ғ", "Ҕ", "Җ", "Ҙ", "Қ",
    "Ҝ", "Ҟ", "Ҡ", "Ң", "Ҥ", "Ҧ", "Ҩ", "Ҫ", "Ҭ", "Ү", "Ұ", "Ҳ",
    "Ҵ", "Ҷ", "Ҹ", "Һ", "Ҽ", "Ҿ", "Ӏ", "Ӂ", "Ӄ", "Ӆ", "Ӈ", "Ӊ",
    "Ӌ", "Ӎ", "Ӑ", "Ӓ", "Ӕ", "Ӗ", "Ә", "Ӛ", "Ӝ", "Ӟ", "Ӡ", "Ӣ",
    "Ӥ", "Ӧ", "Ө", "Ӫ", "Ӭ", "Ӯ", "Ӱ", "Ӳ", "Ӵ", "Ӷ", "Ӹ", "Ӻ",
    "Ӽ", "Ӿ", "U+0500", "U+0502", "U+0504", "U+0506", "U+0508",
    "U+050A", "U+050C", "U+050E", "U+0510", "U+0512", "U+0514",
    "U+0516", "U+0518", "U+051A", "U+051C", "U+051E", "U+0520",
    "U+0522", "U+0524", "U+0526", "U+0528", "U+052A", "U+052C",
    "U+052E", "U+0531", "U+0532", "U+0533", "U+0534", "U+0535",
    "U+0536", "U+0537", "U+0538", "U+0539", "U+053A", "U+053B",
    "U+053C", "U+053D", "U+053E", "U+053F", "U+0540", "U+0541",
    "U+0542", "U+0543", "U+0544", "U+0545", "U+0546", "U+0547",
    "U+0548", "U+0549", "U+054A", "U+054B", "U+054C", "U+054D",
    "U+054E", "U+054F", "U+0550", "U+0551", "U+0552", "U+0553",
    "U+0554", "U+0555", "U+0556", "Ⴀ", "Ⴁ", "Ⴂ", "Ⴃ", "Ⴄ", "Ⴅ",
    "Ⴆ", "Ⴇ", "Ⴈ", "Ⴉ", "Ⴊ", "Ⴋ", "Ⴌ", "Ⴍ", "Ⴎ", "Ⴏ", "Ⴐ", "Ⴑ",
    "Ⴒ", "Ⴓ", "Ⴔ", "Ⴕ", "Ⴖ", "Ⴗ", "Ⴘ", "Ⴙ", "Ⴚ", "Ⴛ", "Ⴜ", "Ⴝ",
    "Ⴞ", "Ⴟ", "Ⴠ", "Ⴡ", "Ⴢ", "Ⴣ", "Ⴤ", "Ⴥ", "Ⴧ", "Ⴭ", "Ꭰ", "Ꭱ",
    "Ꭲ", "Ꭳ", "Ꭴ", "Ꭵ", "Ꭶ", "Ꭷ", "Ꭸ", "Ꭹ", "Ꭺ", "Ꭻ", "Ꭼ", "Ꭽ",
    "Ꭾ", "Ꭿ", "Ꮀ", "Ꮁ", "Ꮂ", "Ꮃ", "Ꮄ", "Ꮅ", "Ꮆ", "Ꮇ", "Ꮈ", "Ꮉ",
    "Ꮊ", "Ꮋ", "Ꮌ", "Ꮍ", "Ꮎ", "Ꮏ", "Ꮐ", "Ꮑ", "Ꮒ", "Ꮓ", "Ꮔ", "Ꮕ",
    "Ꮖ", "Ꮗ", "Ꮘ", "Ꮙ", "Ꮚ", "Ꮛ", "Ꮜ", "Ꮝ", "Ꮞ", "Ꮟ", "Ꮠ", "Ꮡ",
    "Ꮢ", "Ꮣ", "Ꮤ", "Ꮥ", "Ꮦ", "Ꮧ", "Ꮨ", "Ꮩ", "Ꮪ", "Ꮫ", "Ꮬ", "Ꮭ",
    "Ꮮ", "Ꮯ", "Ꮰ", "Ꮱ", "Ꮲ", "Ꮳ", "Ꮴ", "Ꮵ", "Ꮶ", "Ꮷ", "Ꮸ", "Ꮹ",
    "Ꮺ", "Ꮻ", "Ꮼ", "Ꮽ", "Ꮾ", "Ꮿ", "Ᏸ", "Ᏹ", "Ᏺ", "Ᏻ", "Ᏼ", "Ᏽ",
    "Ა", "Ბ", "Გ", "Დ", "Ე", "Ვ", "Ზ", "Თ", "Ი", "Კ", "Ლ", "Მ",
    "Ნ", "Ო", "Პ", "Ჟ", "Რ", "Ს", "Ტ", "Უ", "Ფ", "Ქ", "Ღ", "Ყ",
    "Შ", "Ჩ", "Ც", "Ძ", "Წ", "Ჭ", "Ხ", "Ჯ", "Ჰ", "Ჱ", "Ჲ", "Ჳ",
    "Ჴ", "Ჵ", "Ჶ", "Ჷ", "Ჸ", "Ჹ", "Ჺ", "Ჽ", "Ჾ", "Ჿ", "U+1E00",
    "U+1E02", "U+1E04", "U+1E06", "U+1E08", "U+1E0A", "U+1E0C",
    "U+1E0E", "U+1E10", "U+1E12", "U+1E14", "U+1E16", "U+1E18",
    "U+1E1A", "U+1E1C", "U+1E1E", "U+1E20", "U+1E22", "U+1E24",
    "U+1E26", "U+1E28", "U+1E2A", "U+1E2C", "U+1E2E", "U+1E30",
    "U+1E32", "U+1E34", "U+1E36", "U+1E38", "U+1E3A", "U+1E3C",
    "U+1E3E", "U+1E40", "U+1E42", "U+1E44", "U+1E46", "U+1E48",
    "U+1E4A", "U+1E4C", "U+1E4E", "U+1E50", "U+1E52", "U+1E54",
    "U+1E56", "U+1E58", "U+1E5A", "U+1E5C", "U+1E5E", "U+1E60",
    "U+1E62", "U+1E64", "U+1E66", "U+1E68", "U+1E6A", "U+1E6C",
    "U+1E6E", "U+1E70", "U+1E72", "U+1E74", "U+1E76", "U+1E78",
    "U+1E7A", "U+1E7C", "U+1E7E", "Ẁ", "Ẃ", "Ẅ", "Ẇ", "Ẉ", "Ẋ",
    "Ẍ", "Ẏ", "Ẑ", "Ẓ", "Ẕ", "ẞ", "Ạ", "Ả", "Ấ", "Ầ", "Ẩ", "Ẫ",
    "Ậ", "Ắ", "Ằ", "Ẳ", "Ẵ", "Ặ", "Ẹ", "Ẻ", "Ẽ", "Ế", "Ề", "Ể",
    "Ễ", "Ệ", "Ỉ", "Ị", "Ọ", "Ỏ", "Ố", "Ồ", "Ổ", "Ỗ", "Ộ", "Ớ",
    "Ờ", "Ở", "Ỡ", "Ợ", "Ụ", "Ủ", "Ứ", "Ừ", "Ử", "Ữ", "Ự", "Ỳ",
    "Ỵ", "Ỷ", "Ỹ", "Ỻ", "Ỽ", "Ỿ", "U+1F08", "U+1F09", "U+1F0A",
    "U+1F0B", "U+1F0C", "U+1F0D", "U+1F0E", "U+1F0F", "U+1F18",
    "U+1F19", "U+1F1A", "U+1F1B", "U+1F1C", "U+1F1D", "U+1F28",
    "U+1F29", "U+1F2A", "U+1F2B", "U+1F2C", "U+1F2D", "U+1F2E",
    "U+1F2F", "U+1F38", "U+1F39", "U+1F3A", "U+1F3B", "U+1F3C",
    "U+1F3D", "U+1F3E", "U+1F3F", "U+1F48", "U+1F49", "U+1F4A",
    "U+1F4B", "U+1F4C", "U+1F4D", "U+1F59", "U+1F5B", "U+1F5D",
    "U+1F5F", "U+1F68", "U+1F69", "U+1F6A", "U+1F6B", "U+1F6C",
    "U+1F6D", "U+1F6E", "U+1F6F", "ᾈ", "ᾉ", "ᾊ", "ᾋ", "ᾌ", "ᾍ",
    "ᾎ", "ᾏ", "ᾘ", "ᾙ", "ᾚ", "ᾛ", "ᾜ", "ᾝ", "ᾞ", "ᾟ", "ᾨ", "ᾩ",
    "ᾪ", "ᾫ", "ᾬ", "ᾭ", "ᾮ", "ᾯ", "Ᾰ", "Ᾱ", "Ὰ", "Ά", "ᾼ", "Ὲ",
    "Έ", "Ὴ", "Ή", "ῌ", "Ῐ", "Ῑ", "Ὶ", "Ί", "Ῠ", "Ῡ", "Ὺ", "Ύ",
    "Ῥ", "Ὸ", "Ό", "Ὼ", "Ώ", "ῼ", "U+2126", "U+212A", "U+212B",
    "U+2132", "U+2160", "U+2161", "U+2162", "U+2163", "U+2164",
    "U+2165", "U+2166", "U+2167", "U+2168", "U+2169", "U+216A",
    "U+216B", "U+216C", "U+216D", "U+216E", "U+216F", "Ↄ", "Ⓐ",
    "Ⓑ", "Ⓒ", "Ⓓ", "Ⓔ", "Ⓕ", "Ⓖ", "Ⓗ", "Ⓘ", "Ⓙ", "Ⓚ", "Ⓛ", "Ⓜ",
    "Ⓝ", "Ⓞ", "Ⓟ", "Ⓠ", "Ⓡ", "Ⓢ", "Ⓣ", "Ⓤ", "Ⓥ", "Ⓦ", "Ⓧ", "Ⓨ",
    "Ⓩ", "U+2C00", "U+2C01", "U+2C02", "U+2C03", "U+2C04",
    "U+2C05", "U+2C06", "U+2C07", "U+2C08", "U+2C09", "U+2C0A",
    "U+2C0B", "U+2C0C", "U+2C0D", "U+2C0E", "U+2C0F", "U+2C10",
    "U+2C11", "U+2C12", "U+2C13", "U+2C14", "U+2C15", "U+2C16",
    "U+2C17", "U+2C18", "U+2C19", "U+2C1A", "U+2C1B", "U+2C1C",
    "U+2C1D", "U+2C1E", "U+2C1F", "U+2C20", "U+2C21", "U+2C22",
    "U+2C23", "U+2C24", "U+2C25", "U+2C26", "U+2C27", "U+2C28",
    "U+2C29", "U+2C2A", "U+2C2B", "U+2C2C", "U+2C2D", "U+2C2E",
    "U+2C2F", "U+2C60", "U+2C62", "U+2C63", "U+2C64", "U+2C67",
    "U+2C69", "U+2C6B", "U+2C6D", "U+2C6E", "U+2C6F", "U+2C70",
    "U+2C72", "U+2C75", "U+2C7E", "U+2C7F", "Ⲁ", "Ⲃ", "Ⲅ", "Ⲇ",
    "Ⲉ", "Ⲋ", "Ⲍ", "Ⲏ", "Ⲑ", "Ⲓ", "Ⲕ", "Ⲗ", "Ⲙ", "Ⲛ", "Ⲝ", "Ⲟ",
    "Ⲡ", "Ⲣ", "Ⲥ", "Ⲧ", "Ⲩ", "Ⲫ", "Ⲭ", "Ⲯ", "Ⲱ", "Ⲳ", "Ⲵ", "Ⲷ",
    "Ⲹ", "Ⲻ", "Ⲽ", "Ⲿ", "Ⳁ", "Ⳃ", "Ⳅ", "Ⳇ", "Ⳉ", "Ⳋ", "Ⳍ", "Ⳏ",
    "Ⳑ", "Ⳓ", "Ⳕ", "Ⳗ", "Ⳙ", "Ⳛ", "Ⳝ", "Ⳟ", "Ⳡ", "Ⳣ", "Ⳬ", "Ⳮ",
    "Ⳳ", "U+A640", "U+A642", "U+A644", "U+A646", "U+A648",
    "U+A64A", "U+A64C", "U+A64E", "U+A650", "U+A652", "U+A654",
    "U+A656", "U+A658", "U+A65A", "U+A65C", "U+A65E", "U+A660",
    "U+A662", "U+A664", "U+A666", "U+A668", "U+A66A", "U+A66C",
    "Ꚁ", "Ꚃ", "Ꚅ", "Ꚇ", "Ꚉ", "Ꚋ", "Ꚍ", "Ꚏ", "Ꚑ", "Ꚓ", "Ꚕ", "Ꚗ",
    "Ꚙ", "Ꚛ", "U+A722", "U+A724", "U+A726", "U+A728", "U+A72A",
    "U+A72C", "U+A72E", "U+A732", "U+A734", "U+A736", "U+A738",
    "U+A73A", "U+A73C", "U+A73E", "U+A740", "U+A742", "U+A744",
    "U+A746", "U+A748", "U+A74A", "U+A74C", "U+A74E", "U+A750",
    "U+A752", "U+A754", "U+A756", "U+A758", "U+A75A", "U+A75C",
    "U+A75E", "U+A760", "U+A762", "U+A764", "U+A766", "U+A768",
    "U+A76A", "U+A76C", "U+A76E", "U+A779", "U+A77B", "U+A77D",
    "U+A77E", "Ꞁ", "Ꞃ", "Ꞅ", "Ꞇ", "Ꞌ", "Ɥ", "Ꞑ", "Ꞓ", "Ꞗ", "Ꞙ",
    "Ꞛ", "Ꞝ", "Ꞟ", "Ꞡ", "Ꞣ", "Ꞥ", "Ꞧ", "Ꞩ", "Ɦ", "Ɜ", "Ɡ", "Ɬ",
    "Ɪ", "Ʞ", "Ʇ", "Ʝ", "Ꭓ", "Ꞵ", "Ꞷ", "Ꞹ", "Ꞻ", "Ꞽ", "Ꞿ", "Ꟁ",
    "Ꟃ", "Ꞔ", "Ʂ", "Ᶎ", "Ꟈ", "Ꟊ", "Ꟑ", "Ꟗ", "Ꟙ", "Ꟶ", "U+FF21",
    "U+FF22", "U+FF23", "U+FF24", "U+FF25", "U+FF26", "U+FF27",
    "U+FF28", "U+FF29", "U+FF2A", "U+FF2B", "U+FF2C", "U+FF2D",
    "U+FF2E", "U+FF2F", "U+FF30", "U+FF31", "U+FF32", "U+FF33",
    "U+FF34", "U+FF35", "U+FF36", "U+FF37", "U+FF38", "U+FF39",
    "U+FF3A", "U+10400", "U+10401", "U+10402", "U+10403",
    "U+10404", "U+10405", "U+10406", "U+10407", "U+10408",
    "U+10409", "U+1040A", "U+1040B", "U+1040C", "U+1040D",
    "U+1040E", "U+1040F", "U+10410", "U+10411", "U+10412",
    "U+10413", "U+10414", "U+10415", "U+10416", "U+10417",
    "U+10418", "U+10419", "U+1041A", "U+1041B", "U+1041C",
    "U+1041D", "U+1041E", "U+1041F", "U+10420", "U+10421",
    "U+10422", "U+10423", "U+10424", "U+10425", "U+10426",
    "U+10427", "U+104B0", "U+104B1", "U+104B2", "U+104B3",
    "U+104B4", "U+104B5", "U+104B6", "U+104B7", "U+104B8",
    "U+104B9", "U+104BA", "U+104BB", "U+104BC", "U+104BD",
    "U+104BE", "U+104BF", "U+104C0", "U+104C1", "U+104C2",
    "U+104C3", "U+104C4", "U+104C5", "U+104C6", "U+104C7",
    "U+104C8", "U+104C9", "U+104CA", "U+104CB", "U+104CC",
    "U+104CD", "U+104CE", "U+104CF", "U+104D0", "U+104D1",
    "U+104D2", "U+104D3", "U+10570", "U+10571", "U+10572",
    "U+10573", "U+10574", "U+10575", "U+10576", "U+10577",
    "U+10578", "U+10579", "U+1057A", "U+1057C", "U+1057D",
    "U+1057E", "U+1057F", "U+10580", "U+10581", "U+10582",
    "U+10583", "U+10584", "U+10585", "U+10586", "U+10587",
    "U+10588", "U+10589", "U+1058A", "U+1058C", "U+1058D",
    "U+1058E", "U+1058F", "U+10590", "U+10591", "U+10592",
    "U+10594", "U+10595", "U+10C80", "U+10C81", "U+10C82",
    "U+10C83", "U+10C84", "U+10C85", "U+10C86", "U+10C87",
    "U+10C88", "U+10C89", "U+10C8A", "U+10C8B", "U+10C8C",
    "U+10C8D", "U+10C8E", "U+10C8F", "U+10C90", "U+10C91",
    "U+10C92", "U+10C93", "U+10C94", "U+10C95", "U+10C96",
    "U+10C97", "U+10C98", "U+10C99", "U+10C9A", "U+10C9B",
    "U+10C9C", "U+10C9D", "U+10C9E", "U+10C9F", "U+10CA0",
    "U+10CA1", "U+10CA2", "U+10CA3", "U+10CA4", "U+10CA5",
    "U+10CA6", "U+10CA7", "U+10CA8", "U+10CA9", "U+10CAA",
    "U+10CAB", "U+10CAC", "U+10CAD", "U+10CAE", "U+10CAF",
    "U+10CB0", "U+10CB1", "U+10CB2", "U+118A0", "U+118A1",
    "U+118A2", "U+118A3", "U+118A4", "U+118A5", "U+118A6",
    "U+118A7", "U+118A8", "U+118A9", "U+118AA", "U+118AB",
    "U+118AC", "U+118AD", "U+118AE", "U+118AF", "U+118B0",
    "U+118B1", "U+118B2", "U+118B3", "U+118B4", "U+118B5",
    "U+118B6", "U+118B7", "U+118B8", "U+118B9", "U+118BA",
    "U+118BB", "U+118BC", "U+118BD", "U+118BE", "U+118BF",
    "U+16E40", "U+16E41", "U+16E42", "U+16E43", "U+16E44",
    "U+16E45", "U+16E46", "U+16E47", "U+16E48", "U+16E49",
    "U+16E4A", "U+16E4B", "U+16E4C", "U+16E4D", "U+16E4E",
    "U+16E4F", "U+16E50", "U+16E51", "U+16E52", "U+16E53",
    "U+16E54", "U+16E55", "U+16E56", "U+16E57", "U+16E58",
    "U+16E59", "U+16E5A", "U+16E5B", "U+16E5C", "U+16E5D",
    "U+16E5E", "U+16E5F", "U+1E900", "U+1E901", "U+1E902",
    "U+1E903", "U+1E904", "U+1E905", "U+1E906", "U+1E907",
    "U+1E908", "U+1E909", "U+1E90A", "U+1E90B", "U+1E90C",
    "U+1E90D", "U+1E90E", "U+1E90F", "U+1E910", "U+1E911",
    "U+1E912", "U+1E913", "U+1E914", "U+1E915", "U+1E916",
    "U+1E917", "U+1E918", "U+1E919", "U+1E91A", "U+1E91B",
    "U+1E91C", "U+1E91D", "U+1E91E", "U+1E91F", "U+1E920",
    "U+1E921" >>
LowerCase ==
 << "a", "b", "c", "d", "e", "f", "g", "h", "i", "j", "k", "l",
    "m", "n", "o", "p", "q", "r", "s", "t", "u", "v", "w", "x",
    "y", "z", "à", "á", "â", "ã", "ä", "å", "æ", "ç", "è", "é",
    "ê", "ë", "ì", "í", "î", "ï", "ð", "ñ", "ò", "ó", "ô", "õ",
    "ö", "ø", "ù", "ú", "û", "ü", "ý", "þ", "U+0101", "U+0103",
    "U+0105", "U+0107", "U+0109", "U+010B", "U+010D", "U+010F",
    "U+0111", "U+0113", "U+0115", "U+0117", "U+0119", "U+011B",
    "U+011D", "U+011F", "U+0121", "U+0123", "U+0125", "U+0127",
    "U+0129", "U+012B", "U+012D", "U+012F", "i", "U+0133",
    "U+0135", "U+0137", "U+013A", "U+013C", "U+013E", "U+0140",
    "U+0142", "U+0144", "U+0146", "U+0148", "U+014B", "U+014D",
    "U+014F", "U+0151", "U+0153", "U+0155", "U+0157", "U+0159",
    "U+015B", "U+015D", "U+015F", "U+0161", "U+0163", "U+0165",
    "U+0167", "U+0169", "U+016B", "U+016D", "U+016F", "U+0171",
    "U+0173", "U+0175", "U+0177", "ÿ", "U+017A", "U+017C",
    "U+017E", "U+0253", "ƃ", "ƅ", "U+0254", "ƈ", "U+0256",
    "U+0257", "ƌ", "ǝ", "U+0259", "U+025B", "ƒ", "U+0260",
    "U+0263", "U+0269", "U+0268", "ƙ", "U+026F", "U+0272",
    "U+0275", "ơ", "ƣ", "ƥ", "ʀ", "ƨ", "ʃ", "ƭ", "ʈ", "ư", "ʊ",
    "ʋ", "ƴ", "ƶ", "ʒ", "ƹ", "ƽ", "ǆ", "ǆ", "ǉ", "ǉ", "ǌ", "ǌ",
    "ǎ", "ǐ", "ǒ", "ǔ", "ǖ", "ǘ", "ǚ", "ǜ", "ǟ", "ǡ", "ǣ", "ǥ",
    "ǧ", "ǩ", "ǫ", "ǭ", "ǯ", "ǳ", "ǳ", "ǵ", "ƕ", "ƿ", "ǹ", "ǻ",
    "ǽ", "ǿ", "U+0201", "U+0203", "U+0205", "U+0207", "U+0209",
    "U+020B", "U+020D", "U+020F", "U+0211", "U+0213", "U+0215",
    "U+0217", "U+0219", "U+021B", "U+021D", "U+021F", "ƞ",
    "U+0223", "U+0225", "U+0227", "U+0229", "U+022B", "U+022D",
    "U+022F", "U+0231", "U+0233", "U+2C65", "U+023C", "ƚ",
    "U+2C66", "U+0242", "ƀ", "ʉ", "ʌ", "U+0247", "U+0249",
    "U+024B", "U+024D", "U+024F", "U+0371", "U+0373", "U+0377",
    "ϳ", "ά", "έ", "ή", "ί", "ό", "ύ", "ώ", "α", "β", "γ", "δ",
    "ε", "ζ", "η", "θ", "ι", "κ", "λ", "μ", "ν", "ξ", "ο", "π",
    "ρ", "σ", "τ", "υ", "φ", "χ", "ψ", "ω", "ϊ", "ϋ", "ϗ", "ϙ",
    "ϛ", "ϝ", "ϟ", "ϡ", "ϣ", "ϥ", "ϧ", "ϩ", "ϫ", "ϭ", "ϯ", "θ",
    "ϸ", "ϲ", "ϻ", "U+037B", "U+037C", "U+037D", "U+0450",
    "U+0451", "U+0452", "U+0453", "U+0454", "U+0455", "U+0456",
    "U+0457", "U+0458", "U+0459", "U+045A", "U+045B", "U+045C",
    "U+045D", "U+045E", "U+045F", "U+0430", "U+0431", "U+0432",
    "U+0433", "U+0434", "U+0435", "U+0436", "U+0437", "U+0438",
    "U+0439", "U+043A", "U+043B", "U+043C", "U+043D", "U+043E",
    "U+043F", "U+0440", "U+0441", "U+0442", "U+0443", "U+0444",
    "U+0445", "U+0446", "U+0447", "U+0448", "U+0449", "U+044A",
    "U+044B", "U+044C", "U+044D", "U+044E", "U+044F", "U+0461",
    "U+0463", "U+0465", "U+0467", "U+0469", "U+046B", "U+046D",
    "U+046F", "U+0471", "U+0473", "U+0475", "U+0477", "U+0479",
    "U+047B", "U+047D", "U+047F", "ҁ", "ҋ", "ҍ", "ҏ", "ґ", "ғ",
    "ҕ", "җ", "ҙ", "қ", "ҝ", "ҟ", "ҡ", "ң", "ҥ", "ҧ", "ҩ", "ҫ",
    "ҭ", "ү", "ұ", "ҳ", "ҵ", "ҷ", "ҹ", "һ", "ҽ", "ҿ", "ӏ", "ӂ",
    "ӄ", "ӆ", "ӈ", "ӊ", "ӌ", "ӎ", "ӑ", "ӓ", "ӕ", "ӗ", "ә", "ӛ",
    "ӝ", "ӟ", "ӡ", "ӣ", "ӥ", "ӧ", "ө", "ӫ", "ӭ", "ӯ", "ӱ", "ӳ",
    "ӵ", "ӷ", "ӹ", "ӻ", "ӽ", "ӿ", "U+0501", "U+0503", "U+0505",
    "U+0507", "U+0509", "U+050B", "U+050D", "U+050F", "U+0511",
    "U+0513", "U+0515", "U+0517", "U+0519", "U+051B", "U+051D",
    "U+051F", "U+0521", "U+0523", "U+0525", "U+0527", "U+0529",
    "U+052B", "U+052D", "U+052F", "U+0561", "U+0562", "U+0563",
    "U+0564", "U+0565", "U+0566", "U+0567", "U+0568", "U+0569",
    "U+056A", "U+056B", "U+056C", "U+056D", "U+056E", "U+056F",
    "U+0570", "U+0571", "U+0572", "U+0573", "U+0574", "U+0575",
    "U+0576", "U+0577", "U+0578", "U+0579", "U+057A", "U+057B",
    "U+057C", "U+057D", "U+057E", "U+057F", "ր", "ց", "ւ", "փ",
    "ք", "օ", "ֆ", "U+2D00", "U+2D01", "U+2D02", "U+2D03",
    "U+2D04", "U+2D05", "U+2D06", "U+2D07", "U+2D08", "U+2D09",
    "U+2D0A", "U+2D0B", "U+2D0C", "U+2D0D", "U+2D0E", "U+2D0F",
    "U+2D10", "U+2D11", "U+2D12", "U+2D13", "U+2D14", "U+2D15",
    "U+2D16", "U+2D17", "U+2D18", "U+2D19", "U+2D1A", "U+2D1B",
    "U+2D1C", "U+2D1D", "U+2D1E", "U+2D1F", "U+2D20", "U+2D21",
    "U+2D22", "U+2D23", "U+2D24", "U+2D25", "U+2D27", "U+2D2D",
    "U+AB70", "U+AB71", "U+AB72", "U+AB73", "U+AB74", "U+AB75",
    "U+AB76", "U+AB77", "U+AB78", "U+AB79", "U+AB7A", "U+AB7B",
    "U+AB7C", "U+AB7D", "U+AB7E", "U+AB7F", "ꮀ", "ꮁ", "ꮂ", "ꮃ",
    "ꮄ", "ꮅ", "ꮆ", "ꮇ", "ꮈ", "ꮉ", "ꮊ", "ꮋ", "ꮌ", "ꮍ", "ꮎ", "ꮏ",
    "ꮐ", "ꮑ", "ꮒ", "ꮓ", "ꮔ", "ꮕ", "ꮖ", "ꮗ", "ꮘ", "ꮙ", "ꮚ", "ꮛ",
    "ꮜ", "ꮝ", "ꮞ", "ꮟ", "ꮠ", "ꮡ", "ꮢ", "ꮣ", "ꮤ", "ꮥ", "ꮦ", "ꮧ",
    "ꮨ", "ꮩ", "ꮪ", "ꮫ", "ꮬ", "ꮭ", "ꮮ", "ꮯ", "ꮰ", "ꮱ", "ꮲ", "ꮳ",
    "ꮴ", "ꮵ", "ꮶ", "ꮷ", "ꮸ", "ꮹ", "ꮺ", "ꮻ", "ꮼ", "ꮽ", "ꮾ", "ꮿ",
    "ᏸ", "ᏹ", "ᏺ", "ᏻ", "ᏼ", "ᏽ", "ა", "ბ", "გ", "დ", "ე", "ვ",
    "ზ", "თ", "ი", "კ", "ლ", "მ", "ნ", "ო", "პ", "ჟ", "რ", "ს",
    "ტ", "უ", "ფ", "ქ", "ღ", "ყ", "შ", "ჩ", "ც", "ძ", "წ", "ჭ",
    "ხ", "ჯ", "ჰ", "ჱ", "ჲ", "ჳ", "ჴ", "ჵ", "ჶ", "ჷ", "ჸ", "ჹ",
    "ჺ", "ჽ", "ჾ", "ჿ", "U+1E01", "U+1E03", "U+1E05", "U+1E07",
    "U+1E09", "U+1E0B", "U+1E0D", "U+1E0F", "U+1E11", "U+1E13",
    "U+1E15", "U+1E17", "U+1E19", "U+1E1B", "U+1E1D", "U+1E1F",
    "U+1E21", "U+1E23", "U+1E25", "U+1E27", "U+1E29", "U+1E2B",
    "U+1E2D", "U+1E2F", "U+1E31", "U+1E33", "U+1E35", "U+1E37",
    "U+1E39", "U+1E3B", "U+1E3D", "U+1E3F", "U+1E41", "U+1E43",
    "U+1E45", "U+1E47", "U+1E49", "U+1E4B", "U+1E4D", "U+1E4F",
    "U+1E51", "U+1E53", "U+1E55", "U+1E57", "U+1E59", "U+1E5B",
    "U+1E5D", "U+1E5F", "U+1E61", "U+1E63", "U+1E65", "U+1E67",
    "U+1E69", "U+1E6B", "U+1E6D", "U+1E6F", "U+1E71", "U+1E73",
    "U+1E75", "U+1E77", "U+1E79", "U+1E7B", "U+1E7D", "U+1E7F",
    "ẁ", "ẃ", "ẅ", "ẇ", "ẉ", "ẋ", "ẍ", "ẏ", "ẑ", "ẓ", "ẕ", "ß",
    "ạ", "ả", "ấ", "ầ", "ẩ", "ẫ", "ậ", "ắ", "ằ", "ẳ", "ẵ", "ặ",
    "ẹ", "ẻ", "ẽ", "ế", "ề", "ể", "ễ", "ệ", "ỉ", "ị", "ọ", "ỏ",
    "ố", "ồ", "ổ", "ỗ", "ộ", "ớ", "ờ", "ở", "ỡ", "ợ", "ụ", "ủ",
    "ứ", "ừ", "ử", "ữ", "ự", "ỳ", "ỵ", "ỷ", "ỹ", "ỻ", "ỽ", "ỿ",
    "U+1F00", "U+1F01", "U+1F02", "U+1F03", "U+1F04", "U+1F05",
    "U+1F06", "U+1F07", "U+1F10", "U+1F11", "U+1F12", "U+1F13",
    "U+1F14", "U+1F15", "U+1F20", "U+1F21", "U+1F22", "U+1F23",
    "U+1F24", "U+1F25", "U+1F26", "U+1F27", "U+1F30", "U+1F31",
    "U+1F32", "U+1F33", "U+1F34", "U+1F35", "U+1F36", "U+1F37",
    "U+1F40", "U+1F41", "U+1F42", "U+1F43", "U+1F44", "U+1F45",
    "U+1F51", "U+1F53", "U+1F55", "U+1F57", "U+1F60", "U+1F61",
    "U+1F62", "U+1F63", "U+1F64", "U+1F65", "U+1F66", "U+1F67",
    "ᾀ", "ᾁ", "ᾂ", "ᾃ", "ᾄ", "ᾅ", "ᾆ", "ᾇ", "ᾐ", "ᾑ", "ᾒ", "ᾓ",
    "ᾔ", "ᾕ", "ᾖ", "ᾗ", "ᾠ", "ᾡ", "ᾢ", "ᾣ", "ᾤ", "ᾥ", "ᾦ", "ᾧ",
    "ᾰ", "ᾱ", "U+1F70", "U+1F71", "ᾳ", "U+1F72", "U+1F73",
    "U+1F74", "U+1F75", "ῃ", "ῐ", "ῑ", "U+1F76", "U+1F77", "ῠ",
    "ῡ", "U+1F7A", "U+1F7B", "ῥ", "U+1F78", "U+1F79", "U+1F7C",
    "U+1F7D", "ῳ", "ω", "k", "å", "U+214E", "U+2170", "U+2171",
    "U+2172", "U+2173", "U+2174", "U+2175", "U+2176", "U+2177",
    "U+2178", "U+2179", "U+217A", "U+217B", "U+217C", "U+217D",
    "U+217E", "U+217F", "ↄ", "ⓐ", "ⓑ", "ⓒ", "ⓓ", "ⓔ", "ⓕ", "ⓖ",
    "ⓗ", "ⓘ", "ⓙ", "ⓚ", "ⓛ", "ⓜ", "ⓝ", "ⓞ", "ⓟ", "ⓠ", "ⓡ", "ⓢ",
    "ⓣ", "ⓤ", "ⓥ", "ⓦ", "ⓧ", "ⓨ", "ⓩ", "U+2C30", "U+2C31",
    "U+2C32", "U+2C33", "U+2C34", "U+2C35", "U+2C36", "U+2C37",
    "U+2C38", "U+2C39", "U+2C3A", "U+2C3B", "U+2C3C", "U+2C3D",
    "U+2C3E", "U+2C3F", "U+2C40", "U+2C41", "U+2C42", "U+2C43",
    "U+2C44", "U+2C45", "U+2C46", "U+2C47", "U+2C48", "U+2C49",
    "U+2C4A", "U+2C4B", "U+2C4C", "U+2C4D", "U+2C4E", "U+2C4F",
    "U+2C50", "U+2C51", "U+2C52", "U+2C53", "U+2C54", "U+2C55",
    "U+2C56", "U+2C57", "U+2C58", "U+2C59", "U+2C5A", "U+2C5B",
    "U+2C5C", "U+2C5D", "U+2C5E", "U+2C5F", "U+2C61", "U+026B",
    "U+1D7D", "U+027D", "U+2C68", "U+2C6A", "U+2C6C", "U+0251",
    "U+0271", "U+0250", "U+0252", "U+2C73", "U+2C76", "U+023F",
    "U+0240", "ⲁ", "ⲃ", "ⲅ", "ⲇ", "ⲉ", "ⲋ", "ⲍ", "ⲏ", "ⲑ", "ⲓ",
    "ⲕ", "ⲗ", "ⲙ", "ⲛ", "ⲝ", "ⲟ", "ⲡ", "ⲣ", "ⲥ", "ⲧ", "ⲩ", "ⲫ",
    "ⲭ", "ⲯ", "ⲱ", "ⲳ", "ⲵ", "ⲷ", "ⲹ", "ⲻ", "ⲽ", "ⲿ", "ⳁ", "ⳃ",
    "ⳅ", "ⳇ", "ⳉ", "ⳋ", "ⳍ", "ⳏ", "ⳑ", "ⳓ", "ⳕ", "ⳗ", "ⳙ", "ⳛ",
    "ⳝ", "ⳟ", "ⳡ", "ⳣ", "ⳬ", "ⳮ", "ⳳ", "U+A641", "U+A643",
    "U+A645", "U+A647", "U+A649", "U+A64B", "U+A64D", "U+A64F",
    "U+A651", "U+A653", "U+A655", "U+A657", "U+A659", "U+A65B",
    "U+A65D", "U+A65F", "U+A661", "U+A663", "U+A665", "U+A667",
    "U+A669", "U+A66B", "U+A66D", "ꚁ", "ꚃ", "ꚅ", "ꚇ", "ꚉ", "ꚋ",
    "ꚍ", "ꚏ", "ꚑ", "ꚓ", "ꚕ", "ꚗ", "ꚙ", "ꚛ", "U+A723", "U+A725",
    "U+A727", "U+A729", "U+A72B", "U+A72D", "U+A72F", "U+A733",
    "U+A735", "U+A737", "U+A739", "U+A73B", "U+A73D", "U+A73F",
    "U+A741", "U+A743", "U+A745", "U+A747", "U+A749", "U+A74B",
    "U+A74D", "U+A74F", "U+A751", "U+A753", "U+A755", "U+A757",
    "U+A759", "U+A75B", "U+A75D", "U+A75F", "U+A761", "U+A763",
    "U+A765", "U+A767", "U+A769", "U+A76B", "U+A76D", "U+A76F",
    "U+A77A", "U+A77C", "U+1D79", "U+A77F", "ꞁ", "ꞃ", "ꞅ", "ꞇ",
    "ꞌ", "U+0265", "ꞑ", "ꞓ", "ꞗ", "ꞙ", "ꞛ", "ꞝ", "ꞟ", "ꞡ", "ꞣ",
    "ꞥ", "ꞧ", "ꞩ", "U+0266", "U+025C", "U+0261", "U+026C",
    "U+026A", "ʞ", "ʇ", "ʝ", "U+AB53", "ꞵ", "ꞷ", "ꞹ", "ꞻ", "ꞽ",
    "ꞿ", "ꟁ", "ꟃ", "ꞔ", "ʂ", "ᶎ", "ꟈ", "ꟊ", "ꟑ", "ꟗ", "ꟙ", "ꟶ",
    "U+FF41", "U+FF42", "U+FF43", "U+FF44", "U+FF45", "U+FF46",
    "U+FF47", "U+FF48", "U+FF49", "U+FF4A", "U+FF4B", "U+FF4C",
    "U+FF4D", "U+FF4E", "U+FF4F", "U+FF50", "U+FF51", "U+FF52",
    "U+FF53", "U+FF54", "U+FF55", "U+FF56", "U+FF57", "U+FF58",
    "U+FF59", "U+FF5A", "U+10428", "U+10429", "U+1042A",
    "U+1042B", "U+1042C", "U+1042D", "U+1042E", "U+1042F",
    "U+10430", "U+10431", "U+10432", "U+10433", "U+10434",
    "U+10435", "U+10436", "U+10437", "U+10438", "U+10439",
    "U+1043A", "U+1043B", "U+1043C", "U+1043D", "U+1043E",
    "U+1043F", "U+10440", "U+10441", "U+10442", "U+10443",
    "U+10444", "U+10445", "U+10446", "U+10447", "U+10448",
    "U+10449", "U+1044A", "U+1044B", "U+1044C", "U+1044D",
    "U+1044E", "U+1044F", "U+104D8", "U+104D9", "U+104DA",
    "U+104DB", "U+104DC", "U+104DD", "U+104DE", "U+104DF",
    "U+104E0", "U+104E1", "U+104E2", "U+104E3", "U+104E4",
    "U+104E5", "U+104E6", "U+104E7", "U+104E8", "U+104E9",
    "U+104EA", "U+104EB", "U+104EC", "U+104ED", "U+104EE",
    "U+104EF", "U+104F0", "U+104F1", "U+104F2", "U+104F3",
    "U+104F4", "U+104F5", "U+104F6", "U+104F7", "U+104F8",
    "U+104F9", "U+104FA", "U+104FB", "U+10597", "U+10598",
    "U+10599", "U+1059A", "U+1059B", "U+1059C", "U+1059D",
    "U+1059E", "U+1059F", "U+105A0", "U+105A1", "U+105A3",
    "U+105A4", "U+105A5", "U+105A6", "U+105A7", "U+105A8",
    "U+105A9", "U+105AA", "U+105AB", "U+105AC", "U+105AD",
    "U+105AE", "U+105AF", "U+105B0", "U+105B1", "U+105B3",
    "U+105B4", "U+105B5", "U+105B6", "U+105B7", "U+105B8",
    "U+105B9", "U+105BB", "U+105BC", "U+10CC0", "U+10CC1",
    "U+10CC2", "U+10CC3", "U+10CC4", "U+10CC5", "U+10CC6",
    "U+10CC7", "U+10CC8", "U+10CC9", "U+10CCA", "U+10CCB",
    "U+10CCC", "U+10CCD", "U+10CCE", "U+10CCF", "U+10CD0",
    "U+10CD1", "U+10CD2", "U+10CD3", "U+10CD4", "U+10CD5",
    "U+10CD6", "U+10CD7", "U+10CD8", "U+10CD9", "U+10CDA",
    "U+10CDB", "U+10CDC", "U+10CDD", "U+10CDE", "U+10CDF",
    "U+10CE0", "U+10CE1", "U+10CE2", "U+10CE3", "U+10CE4",
    "U+10CE5", "U+10CE6", "U+10CE7", "U+10CE8", "U+10CE9",
    "U+10CEA", "U+10CEB", "U+10CEC", "U+10CED", "U+10CEE",
    "U+10CEF", "U+10CF0", "U+10CF1", "U+10CF2", "U+118C0",
    "U+118C1", "U+118C2", "U+118C3", "U+118C4", "U+118C5",
    "U+118C6", "U+118C7", "U+118C8", "U+118C9", "U+118CA",
    "U+118CB", "U+118CC", "U+118CD", "U+118CE", "U+118CF",
    "U+118D0", "U+118D1", "U+118D2", "U+118D3", "U+118D4",
    "U+118D5", "U+118D6", "U+118D7", "U+118D8", "U+118D9",
    "U+118DA", "U+118DB", "U+118DC", "U+118DD", "U+118DE",
    "U+118DF", "U+16E60", "U+16E61", "U+16E62", "U+16E63",
    "U+16E64", "U+16E65", "U+16E66", "U+16E67", "U+16E68",
    "U+16E69", "U+16E6A", "U+16E6B", "U+16E6C", "U+16E6D",
    "U+16E6E", "U+16E6F", "U+16E70", "U+16E71", "U+16E72",
    "U+16E73", "U+16E74", "U+16E75", "U+16E76", "U+16E77",
    "U+16E78", "U+16E79", "U+16E7A", "U+16E7B", "U+16E7C",
    "U+16E7D", "U+16E7E", "U+16E7F", "U+1E922", "U+1E923",
    "U+1E924", "U+1E925", "U+1E926", "U+1E927", "U+1E928",
    "U+1E929", "U+1E92A", "U+1E92B", "U+1E92C", "U+1E92D",
    "U+1E92E", "U+1E92F", "U+1E930", "U+1E931", "U+1E932",
    "U+1E933", "U+1E934", "U+1E935", "U+1E936", "U+1E937",
    "U+1E938", "U+1E939", "U+1E93A", "U+1E93B", "U+1E93C",
    "U+1E93D", "U+1E93E", "U+1E93F", "U+1E940", "U+1E941",
    "U+1E942", "U+1E943" >>

UpperCaseSet == {UpperCase[k] : k \in 1..Len(UpperCase)}

\* unicode.ToLower of one character
LowerChar(c) ==
    IF c \notin UpperCaseSet THEN c
    ELSE LowerCase[CHOOSE k \in 1..Len(UpperCase) : UpperCase[k] = c]

\* strings.ToLower
ToLower(str) == [i \in 1..Len(str) |-> LowerChar(str[i])]

HexLetters == {"a", "b", "c", "d", "e", "f", "A", "B", "C", "D", "E", "F"}

HexVal(c) ==
    CASE c \in Digits -> DigitVal(c)
      [] c \in {"a", "A"} -> 10 [] c \in {"b", "B"} -> 11 [] c \in {"c", "C"} -> 12
      [] c \in {"d", "D"} -> 13 [] c \in {"e", "E"} -> 14 [] c \in {"f", "F"} -> 15

\* twice the number a digit run denotes: a digit of 5 or more carries one
\* into the digit before it
Double(a) ==
    The({ (IF d # <<>> /\ DigitVal(d[1]) >= 5 THEN <<"1">> ELSE <<>>) \o
          [i \in 1..Len(d) |->
              DigitChar((2 * DigitVal(d[i])
                         + (IF i < Len(d) /\ DigitVal(d[i + 1]) >= 5 THEN 1 ELSE 0))
                        % 10)] : d \in {a} })

\* five times the number a digit run denotes: the half of ten times it,
\* where an odd digit carries ten into the digit after it
Times5(a) ==
    The({ StripZeros([i \in 1..Len(d) |->
              DigitChar((DigitVal(d[i])
                         + (IF i > 1 /\ DigitVal(d[i - 1]) % 2 = 1 THEN 10 ELSE 0))
                        \div 2)]) : d \in {Append(a, "0")} })

\* a * 2^n and a * 5^n on digit runs, by halves of n
RECURSIVE DoubleN(_, _)
DoubleN(a, n) ==
    The({ IF n = 0 \/ d = <<>> THEN d
          ELSE IF n = 1 THEN Double(d)
          ELSE DoubleN(DoubleN(d, n \div 2), n - (n \div 2)) : d \in {a} })

RECURSIVE Times5N(_, _)
Times5N(a, n) ==
    The({ IF n = 0 \/ d = <<>> THEN d
          ELSE IF n = 1 THEN Times5(d)
          ELSE Times5N(Times5N(d, n \div 2), n - (n \div 2)) : d \in {a} })

\* the length of the longer of two digit runs
LongerLen(a, b) == IF Len(a) >= Len(b) THEN Len(a) ELSE Len(b)

\* a digit run filled with zeros in front to the length n
PadLeft(digits, n) ==
    The({ [i \in 1..n |-> IF i <= n - Len(d) THEN "0" ELSE d[i - (n - Len(d))]]
          : d \in {digits} })

\* the sum of the numbers two digit runs denote.  A place receives a carry
\* when a place after it makes one (a sum of ten or more) and the places in
\* between pass it on (sums of nine).
Add(a, b) ==
    The({ StripZeros(
            [i \in 1..Len(x) |->
                DigitChar((DigitVal(x[i]) + DigitVal(y[i])
                           + (IF \E j \in (i + 1)..Len(x) :
                                    /\ DigitVal(x[j]) + DigitVal(y[j]) >= 10
                                    /\ \A k \in (i + 1)..(j - 1) :
                                           DigitVal(x[k]) + DigitVal(y[k]) = 9
                              THEN 1 ELSE 0)) % 10)])
          : x \in {PadLeft(a, LongerLen(a, b) + 1)},
            y \in {PadLeft(b, LongerLen(a, b) + 1)} })

\* the decimal digits of the number a run of hexadecimal digits denotes:
\* the first half of the run times 16 for each digit of the second half,
\* plus the second half
RECURSIVE HexValue(_)
HexValue(str) ==
    The({ IF d = <<>> THEN <<>>
          ELSE IF Len(d) = 1 THEN IntDigits(HexVal(d[1]))
          ELSE Add(DoubleN(HexValue(SubSeq(d, 1, Len(d) \div 2)),
                           4 * (Len(d) - (Len(d) \div 2))),
                   HexValue(SubSeq(d, (Len(d) \div 2) + 1, Len(d))))
          : d \in {str} })

RECURSIVE Pow(_, _)
Pow(b, n) == IF n = 0 THEN 1 ELSE b * Pow(b, n - 1)

\* strconv's lowering of a character it compares with a letter: the capitals
\* A to Z only
lower(c) ==
    IF \E k \in 1..26 : UpperCase[k] = c
    THEN LowerCase[CHOOSE k \in 1..26 : UpperCase[k] = c]
    ELSE c

\* strconv's commonPrefixLenIgnoreCase(str, prefix), prefix in lower case
RECURSIVE commonPrefixLenIgnoreCase(_, _)
commonPrefixLenIgnoreCase(str, prefix) ==
    IF str = <<>> \/ prefix = <<>> \/ lower(Head(str)) # Head(prefix)
    THEN 0
    ELSE 1 + commonPrefixLenIgnoreCase(Tail(str), Tail(prefix))

\* strconv's special(str): the infinities and NaN, with the length consumed
special(str) ==
    LET signed == str # <<>> /\ str[1] \in {"+", "-"}
        sign   == IF signed /\ str[1] = "-" THEN 0 - 1 ELSE 1
        body   == IF signed THEN Tail(str) ELSE str
        nsign  == IF signed THEN 1 ELSE 0
        ninf   == commonPrefixLenIgnoreCase(body, <<"i", "n", "f", "i", "n", "i", "t", "y">>)
        n      == IF 3 < ninf /\ ninf < 8 THEN 3 ELSE ninf
    IN  IF str = <<>> THEN [ok |-> FALSE, n |-> 0, v |-> Float(0)]
        ELSE IF (signed \/ str[1] \in {"i", "I"}) /\ n \in {3, 8}
        THEN [ok |-> TRUE, n |-> nsign + n, v |-> Inf(sign)]
        ELSE IF str[1] \in {"n", "N"}
                /\ commonPrefixLenIgnoreCase(str, <<"n", "a", "n">>) = 3
        THEN [ok |-> TRUE, n |-> 3, v |-> NaN]
        ELSE [ok |-> FALSE, n |-> 0, v |-> Float(0)]

\* readFloat's loop over the mantissa: the first position from i on that the
\* loop does not consume ('_', one '.', digits, hexadecimal digits in base 16)
MantissaStop(str, i, hex, sawdot) ==
    The({ CHOOSE j \in i..(Len(d) + 1) :
              \A k \in i..j :
                  (k = j) =
                     \/ k > Len(d)
                     \/ /\ d[k] # "_"
                        /\ d[k] \notin Digits
                        /\ ~(hex /\ d[k] \in HexLetters)
                        /\ \/ d[k] # "."
                           \/ sawdot
                           \/ \E m \in i..(k - 1) : d[m] = "."
          : d \in {str} })

\* readFloat's loop over the exponent digits: the first position not consumed
ExponentStop(str, i) ==
    The({ CHOOSE j \in i..(Len(d) + 1) :
              \A k \in i..j :
                  (k = j) = (k > Len(d) \/ d[k] \notin Digits \cup {"_"})
          : d \in {str} })

\* readFloat's exponent: e = e*10 + digit as long as e < 10000, which the
\* fifth digit after the leading zeros ends
ExponentValue(digits) ==
    The({ DecimalValue(SubSeq(d, 1, IF Len(d) > 5 THEN 5 ELSE Len(d)))
          : d \in {StripZeros(digits)} })

\* strconv's underscoreOK after the sign and the base prefix: an underscore
\* must follow a digit and be followed by a digit.  first tells that what
\* precedes str counts as a digit, as the base prefix does.
underscoreScan(str, hex, first) ==
    \E d \in {str} :
        \A k \in 1..Len(d) :
            d[k] = "_" =>
                /\ IF k = 1 THEN first
                   ELSE d[k - 1] \in Digits \/ (hex /\ d[k - 1] \in HexLetters)
                /\ k < Len(d)
                /\ d[k + 1] \in Digits \/ (hex /\ d[k + 1] \in HexLetters)

underscoreOK(str) ==
    LET s1 == IF str # <<>> /\ str[1] \in {"+", "-"} THEN Tail(str) ELSE str
        pre == Len(s1) >= 2 /\ s1[1] = "0" /\ s1[2] \in {"b", "B", "o", "O", "x", "X"}
    IN  IF pre
        THEN underscoreScan(SubSeq(s1, 3, Len(s1)), s1[2] \in {"x", "X"}, TRUE)
        ELSE underscoreScan(s1, FALSE, FALSE)

\* the number of bits of the number a run of hexadecimal digits denotes
HexBits(digits) ==
    The({ IF d = <<>> THEN 0
          ELSE 4 * (Len(d) - 1)
               + (IF HexVal(d[1]) >= 8 THEN 4 ELSE IF HexVal(d[1]) >= 4 THEN 3
                  ELSE IF HexVal(d[1]) >= 2 THEN 2 ELSE 1)
          : d \in {StripZeros(digits)} })

\* the digits of 2^1024 - 2^970, the least number that rounds to infinity:
\* half way between the greatest float64 and 2^1024, where the tie goes to
\* the even mantissa, which is 2^1024
OverflowDigits ==
    <<
      "1", "7", "9", "7", "6", "9", "3", "1", "3", "4", "8", "6", "2", "3", "1",
      "5", "8", "0", "7", "9", "3", "7", "2", "8", "9", "7", "1", "4", "0", "5",
      "3", "0", "3", "4", "1", "5", "0", "7", "9", "9", "3", "4", "1", "3", "2",
      "7", "1", "0", "0", "3", "7", "8", "2", "6", "9", "3", "6", "1", "7", "3",
      "7", "7", "8", "9", "8", "0", "4", "4", "4", "9", "6", "8", "2", "9", "2",
      "7", "6", "4", "7", "5", "0", "9", "4", "6", "6", "4", "9", "0", "1", "7",
      "9", "7", "7", "5", "8", "7", "2", "0", "7", "0", "9", "6", "3", "3", "0",
      "2", "8", "6", "4", "1", "6", "6", "9", "2", "8", "8", "7", "9", "1", "0",
      "9", "4", "6", "5", "5", "5", "5", "4", "7", "8", "5", "1", "9", "4", "0",
      "4", "0", "2", "6", "3", "0", "6", "5", "7", "4", "8", "8", "6", "7", "1",
      "5", "0", "5", "8", "2", "0", "6", "8", "1", "9", "0", "8", "9", "0", "2",
      "0", "0", "0", "7", "0", "8", "3", "8", "3", "6", "7", "6", "2", "7", "3",
      "8", "5", "4", "8", "4", "5", "8", "1", "7", "7", "1", "1", "5", "3", "1",
      "7", "6", "4", "4", "7", "5", "7", "3", "0", "2", "7", "0", "0", "6", "9",
      "8", "5", "5", "5", "7", "1", "3", "6", "6", "9", "5", "9", "6", "2", "2",
      "8", "4", "2", "9", "1", "4", "8", "1", "9", "8", "6", "0", "8", "3", "4",
      "9", "3", "6", "4", "7", "5", "2", "9", "2", "7", "1", "9", "0", "7", "4",
      "1", "6", "8", "4", "4", "4", "3", "6", "5", "5", "1", "0", "7", "0", "4",
      "3", "4", "2", "7", "1", "1", "5", "5", "9", "6", "9", "9", "5", "0", "8",
      "0", "9", "3", "0", "4", "2", "8", "8", "0", "1", "7", "7", "9", "0", "4",
      "1", "7", "4", "4", "9", "7", "7", "9", "2" >>

\* the digits of 5^1075; 2^-1075 = 5^1075 / 10^1075 is the greatest number
\* that rounds to zero: half way between zero and the least float64, where
\* the tie goes to the even mantissa, which is zero
UnderflowDigits ==
    <<
      "2", "4", "7", "0", "3", "2", "8", "2", "2", "9", "2", "0", "6", "2", "3",
      "2", "7", "2", "0", "8", "8", "2", "8", "4", "3", "9", "6", "4", "3", "4",
      "1", "1", "0", "6", "8", "6", "1", "8", "2", "5", "2", "9", "9", "0", "1",
      "3", "0", "7", "1", "6", "2", "3", "8", "2", "2", "1", "2", "7", "9", "2",
      "8", "4", "1", "2", "5", "0", "3", "3", "7", "7", "5", "3", "6", "3", "5",
      "1", "0", "4", "3", "7", "5", "9", "3", "2", "6", "4", "9", "9", "1", "8",
      "1", "8", "0", "8", "1", "7", "9", "9", "6", "1", "8", "9", "8", "9", "8",
      "2", "8", "2", "3", "4", "7", "7", "2", "2", "8", "5", "8", "8", "6", "5",
      "4", "6", "3", "3", "2", "8", "3", "5", "5", "1", "7", "7", "9", "6", "9",
      "8", "9", "8", "1", "9", "9", "3", "8", "7", "3", "9", "8", "0", "0", "5",
      "3", "9", "0", "9", "3", "9", "0", "6", "3", "1", "5", "0", "3", "5", "6",
      "5", "9", "5", "1", "5", "5", "7", "0", "2", "2", "6", "3", "9", "2", "2",
      "9", "0", "8", "5", "8", "3", "9", "2", "4", "4", "9", "1", "0", "5", "1",
      "8", "4", "4", "3", "5", "9", "3", "1", "8", "0", "2", "8", "4", "9", "9",
      "3", "6", "5", "3", "6", "1", "5", "2", "5", "0", "0", "3", "1", "9", "3",
      "7", "0", "4", "5", "7", "6", "7", "8", "2", "4", "9", "2", "1", "9", "3",
      "6", "5", "6", "2", "3", "6", "6", "9", "8", "6", "3", "6", "5", "8", "4",
      "8", "0", "7", "5", "7", "0", "0", "1", "5", "8", "5", "7", "6", "9", "2",
      "6", "9", "9", "0", "3", "7", "0", "6", "3", "1", "1", "9", "2", "8", "2",
      "7", "9", "5", "5", "8", "5", "5", "1", "3", "3", "2", "9", "2", "7", "8",
      "3", "4", "3", "3", "8", "4", "0", "9", "3", "5", "1", "9", "7", "8", "0",
      "1", "5", "5", "3", "1", "2", "4", "6", "5", "9", "7", "2", "6", "3", "5",
      "7", "9", "5", "7", "4", "6", "2", "2", "7", "6", "6", "4", "6", "5", "2",
      "7", "2", "8", "2", "7", "2", "2", "0", "0", "5", "6", "3", "7", "4", "0",
      "0", "6", "4", "8", "5", "4", "9", "9", "9", "7", "7", "0", "9", "6", "5",
      "9", "9", "4", "7", "0", "4", "5", "4", "0", "2", "0", "8", "2", "8", "1",
      "6", "6", "2", "2", "6", "2", "3", "7", "8", "5", "7", "3", "9", "3", "4",
      "5", "0", "7", "3", "6", "3", "3", "9", "0", "0", "7", "9", "6", "7", "7",
      "6", "1", "9", "3", "0", "5", "7", "7", "5", "0", "6", "7", "4", "0", "1",
      "7", "6", "3", "2", "4", "6", "7", "3", "6", "0", "0", "9", "6", "8", "9",
      "5", "1", "3", "4", "0", "5", "3", "5", "5", "3", "7", "4", "5", "8", "5",
      "1", "6", "6", "6", "1", "1", "3", "4", "2", "2", "3", "7", "6", "6", "6",
      "7", "8", "6", "0", "4", "1", "6", "2", "1", "5", "9", "6", "8", "0", "4",
      "6", "1", "9", "1", "4", "4", "6", "7", "2", "9", "1", "8", "4", "0", "3",
      "0", "0", "5", "3", "0", "0", "5", "7", "5", "3", "0", "8", "4", "9", "0",
      "4", "8", "7", "6", "5", "3", "9", "1", "7", "1", "1", "3", "8", "6", "5",
      "9", "1", "6", "4", "6", "2", "3", "9", "5", "2", "4", "9", "1", "2", "6",
      "2", "3", "6", "5", "3", "8", "8", "1", "8", "7", "9", "6", "3", "6", "2",
      "3", "9", "3", "7", "3", "2", "8", "0", "4", "2", "3", "8", "9", "1", "0",
      "1", "8", "6", "7", "2", "3", "4", "8", "4", "9", "7", "6", "6", "8", "2",
      "3", "5", "0", "8", "9", "8", "6", "3", "3", "8", "8", "5", "8", "7", "9",
      "2", "5", "6", "2", "8", "3", "0", "2", "7", "5", "5", "9", "9", "5", "6",
      "5", "7", "5", "2", "4", "4", "5", "5", "5", "0", "7", "2", "5", "5", "1",
      "8", "9", "3", "1", "3", "6", "9", "0", "8", "3", "6", "2", "5", "4", "7",
      "7", "9", "1", "8", "6", "9", "4", "8", "6", "6", "7", "9", "9", "4", "9",
      "6", "8", "3", "2", "4", "0", "4", "9", "7", "0", "5", "8", "2", "1", "0",
      "2", "8", "5", "1", "3", "1", "8", "5", "4", "5", "1", "3", "9", "6", "2",
      "1", "3", "8", "3", "7", "7", "2", "2", "8", "2", "6", "1", "4", "5", "4",
      "3", "7", "6", "9", "3", "4", "1", "2", "5", "3", "2", "0", "9", "8", "5",
      "9", "1", "3", "2", "7", "6", "6", "7", "2", "3", "6", "3", "2", "8", "1",
      "2", "5" >>

\* a digit run cut or filled with zeros to the length n
PadDigits(digits, n) ==
    The({ [i \in 1..n |-> IF i <= Len(d) THEN d[i] ELSE "0"] : d \in {digits} })

\* 0.a >= 0.b for the decimal fractions two digit runs denote
FractionGeq(a, b) ==
    \E n \in {LongerLen(a, b)} : DigitsGeq(PadDigits(a, n), PadDigits(b, n))

\* the float64 of the decimal number sign * digits * 10^p, or its range
\* error. The value is the decimal as written and stands for the float64
\* nearest to it.
DecimalFloat(sign, digits, p) ==
    The({ LET x == Len(d) - 1 + p      \* the power of ten of the leading digit
          IN  IF \/ d = <<>>
                 \/ x < 0 - 324
                 \/ x = 0 - 324 /\ FractionGeq(UnderflowDigits, d)
              THEN [ok |-> TRUE, v |-> Float(0)]
              ELSE IF x > 308 \/ (x = 308 /\ FractionGeq(d, OverflowDigits))
              THEN [ok |-> FALSE, v |-> Inf(sign)]
              ELSE [ok |-> TRUE, v |-> Normalize(sign, d, p)]
          : d \in {StripZeros(digits)} })

\* the bits of a run of hexadecimal digits, from its first 1 on
HexBitSeq(digits) ==
    The({ [i \in 1..HexBits(d) |->
              (HexVal(d[((i + 4 * Len(d) - HexBits(d) - 1) \div 4) + 1])
               \div Pow(2, 3 - ((i + 4 * Len(d) - HexBits(d) - 1) % 4))) % 2]
          : d \in {StripZeros(digits)} })

\* the mantissa rounds up to 2^53: its first 54 bits are all 1, so that the
\* bits after the 53rd are a half or more and the 53 bits kept are odd
RoundsToNextPower(digits) ==
    \E bits \in {HexBitSeq(digits)} :
        Len(bits) >= 54 /\ \A i \in 1..54 : bits[i] = 1

\* the mantissa is a power of two: no bit after its first is 1
IsPowerOfTwo(digits) ==
    \E bits \in {HexBitSeq(digits)} : \A i \in 2..Len(bits) : bits[i] = 0

\* the float64 of the number sign * digits (hexadecimal) * 2^q, or its range
\* error. 2^-1075 is the tie between zero and the least float64 and goes to
\* zero; a mantissa that rounds up to 2^53 has one more bit.
HexFloat(sign, digits, q) ==
    The({ IF \/ d = <<>>
             \/ HexBits(d) + q < 0 - 1074
             \/ HexBits(d) + q = 0 - 1074 /\ IsPowerOfTwo(d)
          THEN [ok |-> TRUE, v |-> Float(0)]
          ELSE IF \/ HexBits(d) + q > 1024
                  \/ HexBits(d) + q = 1024 /\ RoundsToNextPower(d)
          THEN [ok |-> FALSE, v |-> Inf(sign)]
          ELSE IF q >= 0
          THEN [ok |-> TRUE, v |-> Normalize(sign, DoubleN(HexValue(d), q), 0)]
          ELSE [ok |-> TRUE, v |-> Normalize(sign, Times5N(HexValue(d), 0 - q), q)]
          : d \in {StripZeros(digits)} })

\* strconv's readFloat and the conversion of what it read: an optional sign,
\* an optional 0x, the mantissa, the exponent (e in base 10, p in base 16,
\* where it is required), underscores where underscoreOK allows them.
\* ok = FALSE with n = 0 is the syntax error.
readFloat(str) ==
    LET signed  == str # <<>> /\ str[1] \in {"+", "-"}
        sign    == IF signed /\ str[1] = "-" THEN 0 - 1 ELSE 1
        i0      == IF signed THEN 2 ELSE 1
        hex     == i0 + 2 <= Len(str) /\ str[i0] = "0" /\ str[i0 + 1] \in {"x", "X"}
        i1      == IF hex THEN i0 + 2 ELSE i0
        i2      == MantissaStop(str, i1, hex, FALSE)
        mant    == SubSeq(str, i1, i2 - 1)
        IsDigit(c) == c \in Digits \/ (hex /\ c \in HexLetters)
        NotUnderscore(c) == c # "_"
        parts   == Split(SelectSeq(mant, NotUnderscore), ".")
        digits  == SelectSeq(mant, IsDigit)
        nfrac   == IF Len(parts) = 2 THEN Len(parts[2]) ELSE 0
        hasExp  == i2 <= Len(str)
                   /\ str[i2] \in (IF hex THEN {"p", "P"} ELSE {"e", "E"})
        esigned == hasExp /\ i2 + 1 <= Len(str) /\ str[i2 + 1] \in {"+", "-"}
        esign   == IF esigned /\ str[i2 + 1] = "-" THEN 0 - 1 ELSE 1
        i3      == IF esigned THEN i2 + 2 ELSE i2 + 1
        expOk   == i3 <= Len(str) /\ str[i3] \in Digits
        i4      == IF hasExp THEN ExponentStop(str, i3) ELSE i2
        IsDec(c) == c \in Digits
        e       == IF hasExp
                   THEN esign * ExponentValue(
                                    SelectSeq(SubSeq(str, i3, i4 - 1), IsDec))
                   ELSE 0
        bad     == [ok |-> FALSE, n |-> 0, v |-> Float(0)]
    IN  IF str = <<>> \/ digits = <<>> THEN bad
        ELSE IF hasExp /\ ~expOk THEN bad
        ELSE IF hex /\ ~hasExp THEN bad
        ELSE IF Contains(SubSeq(str, 1, i4 - 1), "_")
                /\ ~underscoreOK(SubSeq(str, 1, i4 - 1)) THEN bad
        ELSE The({ [ok |-> r.ok, n |-> i4 - 1, v |-> r.v]
                   : r \in {IF hex THEN HexFloat(sign, digits, e - 4 * nfrac)
                            ELSE DecimalFloat(sign, digits, e - nfrac)} })

\* strconv.ParseFloat(str, 64): the infinities and NaN by name, or a decimal
\* or hexadecimal number, the whole of str being consumed.  A syntax error
\* gives 0, a number out of range gives the infinity of its sign, both with
\* an error (ok = FALSE).
ParseFloat(str) ==
    IF special(str).ok
    THEN IF special(str).n = Len(str)
         THEN [ok |-> TRUE, v |-> special(str).v]
         ELSE [ok |-> FALSE, v |-> Float(0)]
    ELSE The({ IF r.n = 0 \/ r.n # Len(str)
               THEN [ok |-> FALSE, v |-> Float(0)]
               ELSE [ok |-> r.ok, v |-> r.v] : r \in {readFloat(str)} })

\* the keywords of the switch (lines 59-72)
KeywordsOne ==
    { <<"y", "e", "s">>, <<"o", "n">>, <<"p", "r", "i", "m", "a", "r", "y">> }
KeywordsZero ==
    { <<"n", "o">>, <<"o", "f", "f">>,
      <<"d", "i", "s", "a", "b", "l", "e", "d">>,
      <<"c", "o", "n", "n", "e", "c", "t", "i", "n", "g">>,
      <<"n", "o", "n", "-", "p", "r", "i", "m", "a", "r", "y">>,
      <<"d", "i", "s", "c", "o", "n", "n", "e", "c", "t", "e", "d">> }

(***************************************************************************)
(* time.Parse for the two layouts of parseStatus.  A step of the parse     *)
(* answers [ok, v, n]: whether it matched, the number read, and the        *)
(* position after what it consumed.                                        *)
(***************************************************************************)
NoMatch == [ok |-> FALSE, v |-> 0, n |-> 0]

isDigit(str, i) == i <= Len(str) /\ str[i] \in Digits

\* time's getnum: two digits, or one where fixed is FALSE
getnum(str, i, fixed) ==
    IF ~isDigit(str, i) THEN NoMatch
    ELSE IF ~isDigit(str, i + 1)
         THEN IF fixed THEN NoMatch
              ELSE [ok |-> TRUE, v |-> DigitVal(str[i]), n |-> i + 1]
         ELSE [ok |-> TRUE, v |-> 10 * DigitVal(str[i]) + DigitVal(str[i + 1]),
               n |-> i + 2]

\* the element "2006": four digits
getYear(str, i) ==
    IF i + 3 <= Len(str) /\ AllDigits(SubSeq(str, i, i + 3))
    THEN [ok |-> TRUE, v |-> DecimalValue(SubSeq(str, i, i + 3)), n |-> i + 4]
    ELSE NoMatch

\* time's skip for a one-character literal of the layout: a space matches
\* any run of spaces (and the end of the value), another character itself
RECURSIVE cutspace(_, _)
cutspace(str, i) ==
    IF i <= Len(str) /\ str[i] = " " THEN cutspace(str, i + 1) ELSE i

skip(str, i, c) ==
    IF c = " "
    THEN IF i <= Len(str) /\ str[i] # " " THEN NoMatch
         ELSE [ok |-> TRUE, v |-> 0, n |-> cutspace(str, i)]
    ELSE IF i <= Len(str) /\ str[i] = c
         THEN [ok |-> TRUE, v |-> 0, n |-> i + 1]
         ELSE NoMatch

shortMonthNames ==
    << <<"j", "a", "n">>, <<"f", "e", "b">>, <<"m", "a", "r">>, <<"a", "p", "r">>,
       <<"m", "a", "y">>, <<"j", "u", "n">>, <<"j", "u", "l">>, <<"a", "u", "g">>,
       <<"s", "e", "p">>, <<"o", "c", "t">>, <<"n", "o", "v">>, <<"d", "e", "c">> >>

\* time's lookup(shortMonthNames, value): the element "Jan", letters compared
\* without case
getMonthName(str, i) ==
    IF /\ i + 2 <= Len(str)
       /\ \E k \in 1..12 :
              commonPrefixLenIgnoreCase(SubSeq(str, i, i + 2), shortMonthNames[k]) = 3
    THEN [ok |-> TRUE,
          v  |-> CHOOSE k \in 1..12 :
                     commonPrefixLenIgnoreCase(SubSeq(str, i, i + 2),
                                               shortMonthNames[k]) = 3,
          n  |-> i + 3]
    ELSE NoMatch

\* the position after the digits of a fractional second the value holds
\* where the layout has none ('.' or ',' followed by a digit), else i
RECURSIVE digitsStop(_, _)
digitsStop(str, i) == IF isDigit(str, i) THEN digitsStop(str, i + 1) ELSE i

fractionStop(str, i) ==
    IF i <= Len(str) /\ str[i] \in {".", ","} /\ isDigit(str, i + 1)
    THEN digitsStop(str, i + 1)
    ELSE i

\* the elements "15:04:05": the hour of one or two digits, the minute and the
\* second of two, each within its range; v is the second of the day
getClock(str, i) ==
    LET hour == getnum(str, i, FALSE)
        c1   == skip(str, hour.n, ":")
        min  == getnum(str, c1.n, TRUE)
        c2   == skip(str, min.n, ":")
        sec  == getnum(str, c2.n, TRUE)
    IN  IF /\ hour.ok /\ hour.v < 24
           /\ c1.ok /\ min.ok /\ min.v < 60
           /\ c2.ok /\ sec.ok /\ sec.v < 60
        THEN [ok |-> TRUE, v |-> 3600 * hour.v + 60 * min.v + sec.v,
              n  |-> fractionStop(str, sec.n)]
        ELSE NoMatch

\* time's parseSignedOffset: the length of a sign and an hour up to 23, or 0
parseSignedOffset(str, i) ==
    IF /\ i <= Len(str) /\ str[i] \in {"+", "-"}
       /\ isDigit(str, i + 1)
       /\ ~DigitsExceed(SubSeq(str, i + 1, digitsStop(str, i + 1) - 1), <<"2", "3">>)
    THEN digitsStop(str, i + 1) - i
    ELSE 0

UpperLetters ==
    {"A", "B", "C", "D", "E", "F", "G", "H", "I", "J", "K", "L", "M",
     "N", "O", "P", "Q", "R", "S", "T", "U", "V", "W", "X", "Y", "Z"}

\* the number of upper-case letters from position i on, counted up to 6
RECURSIVE countUpper(_, _, _)
countUpper(str, i, n) ==
    IF n < 6 /\ i <= Len(str) /\ str[i] \in UpperLetters
    THEN countUpper(str, i + 1, n + 1)
    ELSE n

\* time's parseTimeZone: the length of the zone abbreviation at position i,
\* 0 where there is none
parseTimeZone(str, i) ==
    LET rest == SubSeq(str, i, Len(str))
        n    == countUpper(str, i, 0)
    IN  IF Len(rest) < 3 THEN 0
        ELSE IF Len(rest) >= 4 /\ SubSeq(rest, 1, 4) \in {<<"C", "h", "S", "T">>,
                                                          <<"M", "e", "S", "T">>}
        THEN 4
        ELSE IF SubSeq(rest, 1, 3) = <<"G", "M", "T">>
        THEN 3 + parseSignedOffset(str, i + 3)
        ELSE IF rest[1] \in {"+", "-"}
        THEN parseSignedOffset(str, i)
        ELSE IF n = 5 /\ rest[5] = "T" THEN 5
        ELSE IF n = 4 /\ (rest[4] = "T" \/ SubSeq(rest, 1, 4) = <<"W", "I", "T", "A">>)
        THEN 4
        ELSE IF n = 3 THEN 3
        ELSE 0

\* the element "MST": "UTC", or a zone abbreviation
getZone(str, i) ==
    IF i + 2 <= Len(str) /\ SubSeq(str, i, i + 2) = <<"U", "T", "C">>
    THEN [ok |-> TRUE, v |-> 0, n |-> i + 3]
    ELSE IF parseTimeZone(str, i) > 0
         THEN [ok |-> TRUE, v |-> 0, n |-> i + parseTimeZone(str, i)]
         ELSE NoMatch

isLeap(year) == year % 4 = 0 /\ (year % 100 # 0 \/ year % 400 = 0)

daysIn(month, year) ==
    IF month = 2 THEN (IF isLeap(year) THEN 29 ELSE 28)
    ELSE IF month \in {4, 6, 9, 11} THEN 30 ELSE 31

\* the days from 1970-01-01 to the day (year, month, day)
daysSinceEpoch(year, month, day) ==
    LET y   == IF month <= 2 THEN year - 1 ELSE year
        era == y \div 400
        yoe == y - era * 400
        doy == (153 * ((month + 9) % 12) + 2) \div 5 + day - 1
        doe == yoe * 365 + yoe \div 4 - yoe \div 100 + doy
    IN  era * 146097 + doe - 719468

\* Time.Unix() of the date and the second of the day, read in UTC.  The
\* number is computed in the integers of the checker, which hold the
\* seconds of the years 1902 to 2037.
unixOf(year, month, day, clock) == daysSinceEpoch(year, month, day) * 86400 + clock

\* the end of the parse: no text left, and a day the month has
timeResult(year, month, day, clock, n, len) ==
    IF n = len + 1 /\ month \in 1..12 /\ day >= 1 /\ day <= daysIn(month, year)
    THEN [ok |-> TRUE, unix |-> unixOf(year, month, day, clock)]
    ELSE [ok |-> FALSE, unix |-> 0]

\* time.Parse("Jan 02 15:04:05 2006 MST", str) (line 73).  The zone named is
\* looked up in the local location, taken to be UTC, which knows no
\* abbreviation but UTC: the time is then the one read in UTC, under a zone
\* made up with that name.
timeParseMST(str) ==
    LET month == getMonthName(str, 1)
        s1    == skip(str, month.n, " ")
        day   == getnum(str, s1.n, TRUE)
        s2    == skip(str, day.n, " ")
        clock == getClock(str, s2.n)
        s3    == skip(str, clock.n, " ")
        year  == getYear(str, s3.n)
        s4    == skip(str, year.n, " ")
        zone  == getZone(str, s4.n)
    IN  IF /\ month.ok /\ s1.ok /\ day.ok /\ s2.ok /\ clock.ok /\ s3.ok
           /\ year.ok /\ s4.ok /\ zone.ok
        THEN timeResult(year.v, month.v, day.v, clock.v, zone.n, Len(str))
        ELSE [ok |-> FALSE, unix |-> 0]

\* time.Parse("2006-01-02 15:04:05", str) (line 76): the time read in UTC
timeParseISO(str) ==
    LET year  == getYear(str, 1)
        d1    == skip(str, year.n, "-")
        month == getnum(str, d1.n, TRUE)
        d2    == skip(str, month.n, "-")
        day   == getnum(str, d2.n, TRUE)
        s1    == skip(str, day.n, " ")
        clock == getClock(str, s1.n)
    IN  IF /\ year.ok /\ d1.ok /\ month.ok /\ d2.ok /\ day.ok /\ s1.ok /\ clock.ok
        THEN timeResult(year.v, month.v, day.v, clock.v, clock.n, Len(str))
        ELSE [ok |-> FALSE, unix |-> 0]

\* the two calls of lines 73-78 in their order
timeParse(str) ==
    IF timeParseMST(str).ok THEN timeParseMST(str) ELSE timeParseISO(str)

\* logRE.Find(data) for logRE = `.+\.(\d+)$` (line 48): the text of the leftmost
\* match, from its start to the end of data: a non-empty run without a line
\* break, a '.', and digits up to the end.  found = FALSE is the nil result.
logREMatchesFrom(str, i) ==
    \E j \in (i + 1)..(Len(str) - 1) :
        /\ str[j] = "."
        /\ \A k \in i..(j - 1) : str[k] # "\n"
        /\ \A k \in (j + 1)..Len(str) : str[k] \in Digits

logREFind(str) ==
    IF \E i \in 1..Len(str) : logREMatchesFrom(str, i)
    THEN LET i == CHOOSE k \in 1..Len(str) :
                      /\ logREMatchesFrom(str, k)
                      /\ \A j \in 1..(k - 1) : ~logREMatchesFrom(str, j)
         IN  [found |-> TRUE, text |-> SubSeq(str, i, Len(str))]
    ELSE [found |-> FALSE, text |-> <<>>]

parseStatus(str) ==
    LET dataString == ToLower(str) IN
    IF dataString \in KeywordsOne THEN [value |-> Float(1), ok |-> TRUE]
    ELSE IF dataString \in KeywordsZero THEN [value |-> Float(0), ok |-> TRUE]
    ELSE IF timeParse(str).ok THEN [value |-> Float(timeParse(str).unix), ok |-> TRUE]
    ELSE The({ The({ [value |-> r.v, ok |-> r.ok]
                     : r \in {ParseFloat(IF logNum.found THEN logNum.text
                                         ELSE str)} })
               : logNum \in {logREFind(str)} })

(***************************************************************************)
(* Inputs of parseStatus: every string over StatusChars up to MaxStatusLen *)
(* characters, and the longer values of StatusSamples.                     *)
(***************************************************************************)
StatusChars == {"o", "N", "6", "0", ".", "-"}

StatusSamples ==
    { <<"Y", "e", "s">>, <<"O", "F", "F">>,
      <<"C", "o", "n", "n", "e", "c", "t", "i", "n", "g">>,
      <<"P", "r", "i", "m", "a", "r", "y">>,
      <<"g", "a", "r", "b", "a", "g", "e">>,
      <<"b", "i", "n", "l", "o", "g", ".", "0", "0", "0", "0", "0", "6">>,
      <<"m", "y", "s", "q", "l", ".", "b", "i", "n", ".", "0", "0", "7">>,
      <<"1", "0", ".", "2", ".", "3">>,
      <<"4", "9", "0", "6", "6">>,
      <<"1", ".", "5", "0">>,
      <<"+", "7">>,
      <<"2", "0", "2", "3", "-", "0", "1", "-", "0", "2", " ", "0", "3", ":", "0", "4", ":", "0", "5">>,
      <<"J", "a", "n", " ", "0", "2", " ", "0", "3", ":", "0", "4", ":", "0", "5", " ", "2", "0", "2", "3", " ", "U", "T", "C">>,
      <<"j", "a", "n", " ", "3", "1", " ", "3", ":", "0", "4", ":", "0", "5", ".", "5", " ", " ", "1", "9", "9", "9", " ", "C", "E", "S", "T">>,
      <<"2", "0", "2", "3", "-", "0", "2", "-", "2", "9", " ", "0", "3", ":", "0", "4", ":", "0", "5">>,
      <<"2", "0", "2", "4", "-", "0", "2", "-", "2", "9", " ", "2", "3", ":", "5", "9", ":", "5", "9">>,
      <<"2", "0", "2", "3", "-", "0", "1", "-", "0", "2", " ", "2", "4", ":", "0", "0", ":", "0", "0">>,
      <<"1", "e", "5">>,
      <<"1", "E", "-", "3">>,
      <<"I", "n", "f">>,
      <<"-", "i", "n", "f", "i", "n", "i", "t", "y">>,
      <<"n", "a", "n">>,
      <<"0", "x", "1", "p", "-", "2">>,
      <<"1", "_", "0", "0", "0">>,
      <<"1", "e", "4", "0", "0">>,
      <<"b", ".", "1", "e", "3">>,
      <<"É", "A">>,
      <<"P", "R", "I", "M", "A", "R", "Y">>,
      <<"N", "o", "n", "-", "P", "r", "i", "m", "a", "r", "y">>,
      <<"1", ".", "7", "9", "7", "6", "9", "3", "1", "3", "4", "8", "6", "2", "3", "1",
        "5", "8", "e", "3", "0", "8">>,
      <<"1", ".", "7", "9", "7", "6", "9", "3", "1", "3", "4", "8", "6", "2", "3", "1",
        "5", "8", "0", "8", "e", "3", "0", "8">>,
      <<"2", ".", "4", "e", "-", "3", "2", "4">>,
      <<"2", ".", "5", "e", "-", "3", "2", "4">>,
      <<"0", "x", "1", "p", "-", "1", "0", "7", "5">>,
      <<"0", "x", "3", "p", "-", "1", "0", "7", "6">>,
      <<"0", "x", "1", ".", "f", "f", "f", "f", "f", "f", "f", "f", "f", "f", "f", "f",
        "f", "8", "p", "1", "0", "2", "3">>,
      <<"0", "x", "1", ".", "f", "f", "f", "f", "f", "f", "f", "f", "f", "f", "f", "f",
        "f", "7", "p", "1", "0", "2", "3">>,
      <<"P", "R", "U+0130", "M", "A", "R", "Y">>,
      <<"D", "U+0130", "S", "A", "B", "L", "E", "D">>,
      <<"Ω", "N">> }

StatusInputs == StringsOver(StatusChars, MaxStatusLen) \cup StatusSamples

(***************************************************************************)
(* Specification of a ParseGTID call.                                      *)
(***************************************************************************)
NoGtidRet == [res |-> <<>>, err |-> [kind |-> "not returned"]]
NoStatusRet == [value |-> Float(0), ok |-> FALSE]
NoResult == [cols |-> <<>>, nrows |-> 0]
NoLabels == [masterHost |-> <<>>, masterUUID |-> <<>>,
             channelName |-> <<>>, connectionName |-> <<>>]
NoRows == 0

IdleGtid == s = <<>> /\ gtidRet = NoGtidRet
IdleStatus == data = <<>> /\ statusRet = NoStatusRet
IdleScrape ==
    /\ scraper = ""
    /\ result = NoResult /\ rowIdx = 0 /\ scanArgs = <<>> /\ colIdx = 0
    /\ filename = <<>> /\ position = 0 /\ executedGTidSet = <<>>
    /\ attempts = <<>> /\ query = 0 /\ suffix = 0
    /\ slaveStatusRows = NoRows /\ openRows = {}
    /\ labels = NoLabels /\ value = Float(0) /\ GTIDs = <<>> /\ gtidIdx = 0
    /\ ch = <<>> /\ err = Nil /\ ret = Nil

InitGTID ==
    /\ pc = "ParseGTID"
    /\ s \in GtidInputs
    /\ gtidRet = NoGtidRet
    /\ IdleStatus /\ IdleScrape

CallParseGTID ==
    /\ pc = "ParseGTID"
    /\ gtidRet' = ParseGTID(s)
    /\ pc' = "returned"
    /\ UNCHANGED <<s, statusVars, scrapeVars>>

NextGTID == CallParseGTID

SpecGTID == InitGTID /\ [][NextGTID]_vars

(***************************************************************************)
(* Metric samples.  A descriptor is its fully qualified name            *)
(* (namespace, subsystem, name) and its label names; a sample carries the  *)
(* descriptor, the value type, the float64 value and the label values.     *)
(***************************************************************************)
namespace == "mysql"

\* prometheus.NewDesc(prometheus.BuildFQName(namespace, subsystem, name), ...)
NewDesc(subsystem, name, labelNames) ==
    [namespace |-> namespace, subsystem |-> subsystem, name |-> name,
     labelNames |-> labelNames]

\* prometheus.MustNewConstMetric(desc, valueType, value, labelValues...)
MustNewConstMetric(desc, valueType, v, labelValues) ==
    [desc |-> desc, type |-> valueType, value |-> v, labels |-> labelValues]

\* The dotted log-file number as both scrapers compute it (slave lines
\* 149-156, master lines 114-121): the text is split on '.', fewer than two
\* parts is an error, and the second part, ss[1] in Go, is parsed as a float.
LogFileNum(name) ==
    IF Len(Split(name, ".")) < 2
    THEN [err |-> [kind |-> "split by . item not enough", arg |-> name],
          value |-> Float(0)]
    ELSE The({ IF ~r.ok
               THEN [err |-> [kind |-> "strconv.ParseFloat",
                              arg  |-> Split(name, ".")[2]],
                     value |-> Float(0)]
               ELSE [err |-> Nil, value |-> r.v]
               : r \in {ParseFloat(Split(name, ".")[2])} })

(***************************************************************************)
(* Master status scraper: ScrapeMasterStatus.Scrape                        *)
(***************************************************************************)
master == "master_status"

masterBinlogPos == NewDesc(master, <<"b", "i", "n", "l", "o", "g", "_", "p", "o", "s">>, <<>>)
masterBinlogFileNum == NewDesc(master, <<"b", "i", "n", "l", "o", "g", "_", "f", "i", "l", "e", "_", "n", "u", "m">>, <<>>)
masterExecutedGtidStart ==
    NewDesc(master, <<"e", "x", "e", "c", "u", "t", "e", "d", "_", "g", "t", "i", "d", "_", "s", "t", "a", "r", "t">>, <<"executed_server_id", "partition">>)
masterExecutedGtidEnd ==
    NewDesc(master, <<"e", "x", "e", "c", "u", "t", "e", "d", "_", "g", "t", "i", "d", "_", "e", "n", "d">>, <<"executed_server_id", "partition">>)

\* the column lists SHOW MASTER STATUS is modelled to answer with
MasterColumns ==
    { <<"File", "Position", "Binlog_Do_DB">>,
      <<"File", "Position", "Binlog_Do_DB", "Binlog_Ignore_DB">>,
      <<"File", "Position", "Binlog_Do_DB", "Binlog_Ignore_DB", "Executed_Gtid_Set">> }

\* a NULL of the database, which is no text
NULL == <<"NULL">>

MasterFiles == { <<>>, NULL,
    <<"b", "i", "n", "l", "o", "g", ".", "0", "0", "0", "0", "0", "6">>,
        <<"b", "i", "n", "l", "o", "g">>, <<"a", ".", "b", ".", "7">>,
            <<"a", ".", "5", ".", "b">>, <<".", "6">> }
MasterPositions == { <<"4", "9", "0", "6", "6">>, <<"x">> }
MasterGtidSets ==
    { <<>>, NULL, <<"a", ":", "1", "-", "2", "6", "1", "5", "3", "0">>,
        <<"a", ":", "1", "-", "3", ":", "1", "1", ":", "4", "7", "-", "4", "9", ",", " ", "b", ":", "1", "-", "1", "9">>, <<"a", ":", "1", ",", "a", ":", "2">>, <<"a", ":", "1", "-", "3", ",", "b", ":", "x">>, <<"a">> }

\* the rows a result with n columns may hold
MasterRows(n) ==
    { <<f, p, <<>>, <<>>, g>> : f \in MasterFiles, p \in MasterPositions,
                                g \in IF n = 5 THEN MasterGtidSets ELSE {<<>>} }

\* lines 122-124: the sample of the file number
MasterFileNumMetric(num) ==
    MustNewConstMetric(masterBinlogFileNum, "gauge", num, <<>>)

\* lines 125-127: the sample of the position
MasterPosMetric(pos) ==
    MustNewConstMetric(masterBinlogPos, "gauge", Float(pos), <<>>)

\* the start sample of a set carrying its last transaction number
MasterGtidStartMetricLast(item) ==
    MustNewConstMetric(masterExecutedGtidStart, "gauge",
                       Float(item.LastTransaction), <<item.ServerId, <<>>>>)

\* lines 137-139: the start sample of a set
MasterGtidStartMetric(item) ==
    MustNewConstMetric(masterExecutedGtidStart, "gauge",
                       Float(item.FirstTransaction), <<item.ServerId, <<>>>>)

\* lines 140-142: the end sample of a set
MasterGtidEndMetric(item) ==
    MustNewConstMetric(masterExecutedGtidEnd, "gauge",
                       Float(item.LastTransaction), <<item.ServerId, <<>>>>)

\* MasterGtidParse with the empty string handed to ParseGTID like any other
MasterGtidParseNoSkip(gtidSet) ==
    ParseGTID(gtidSet)

\* lines 130-134: the sets of a non-empty Executed_Gtid_Set or the error of
\* its parse; an empty one is skipped
MasterGtidParse(gtidSet) ==
    IF gtidSet = <<>>
    THEN [res |-> <<>>, err |-> Nil]
    ELSE ParseGTID(gtidSet)

\* the deferred Close of the held result set, run by every return after it
\* was registered
CloseRows == openRows' = openRows \ {slaveStatusRows}

\* the error of a call on a result set closed in between, as the
\* cancellation of ctx closes it
RowsClosed == [kind |-> "sql: Rows are closed"]

\* lines 78-82: the query; a failure returns its error
MasterQuery ==
    /\ pc = "MasterQuery"
    /\ \E ok \in BOOLEAN :
          IF ok
          THEN /\ \E cols \in MasterColumns, n \in 0..MaxRows :
                      result' = [cols |-> cols, nrows |-> n]
               /\ slaveStatusRows' = 1
               /\ openRows' = openRows \cup {1}
               /\ pc' = "MasterCols"
               /\ UNCHANGED <<err, ret>>
          ELSE /\ err' = [kind |-> "query failed", n |-> 1]
               /\ ret' = err'
               /\ pc' = "returned"
               /\ UNCHANGED <<result, slaveStatusRows, openRows>>
    /\ UNCHANGED <<gtidVars, statusVars, scraper, rowIdx, scanArgs, colIdx, labels,
                   masterVars, attempts, query, suffix, sendVars, ch>>

\* lines 92-96: Columns(); a failure returns its error
MasterCols ==
    /\ pc = "MasterCols"
    /\ \E ok \in BOOLEAN :
          IF ok
          THEN /\ pc' = "MasterNext"
               /\ UNCHANGED <<err, ret, openRows>>
          ELSE /\ err' = RowsClosed
               /\ ret' = RowsClosed
               /\ pc' = "returned"
               /\ CloseRows
    /\ UNCHANGED <<gtidVars, statusVars, scraper, rowVars, masterVars,
                   attempts, query, suffix, slaveStatusRows, sendVars, ch>>

\* lines 101, 105: Scan refuses a NULL for a string or an int64, and for the
\* int64 a text ParseInt refuses
ScanRefuses(row, k) ==
    \/ row[k] = NULL
    \/ k = 2 /\ ~ParseInt(row[2]).ok

\* the first of n columns Scan refuses, n + 1 when it refuses none: Scan
\* stores column after column and stops at the first failure
ScanStop(row, n) ==
    IF \E k \in 1..n : ScanRefuses(row, k)
    THEN CHOOSE k \in 1..n :
             ScanRefuses(row, k) /\ \A j \in 1..(k - 1) : ~ScanRefuses(row, j)
    ELSE n + 1

\* lines 98-111: one pass of the row loop, or its end.  Next, finding no
\* further row, closes the result set.  A result set closed between Next and
\* Scan, as the cancellation of ctx closes it, makes Scan fail before it
\* stores anything.
MasterNext ==
    /\ pc = "MasterNext"
    /\ IF rowIdx < result.nrows
       THEN IF Len(result.cols) \in {4, 5}
            THEN /\ rowIdx' = rowIdx + 1
                 /\ \E open \in BOOLEAN :
                       IF open
                       THEN \E row \in MasterRows(Len(result.cols)) :
                            \E stop \in {ScanStop(row, Len(result.cols))} :
                               /\ scanArgs' = SubSeq(row, 1, Len(result.cols))
                               /\ filename' = IF stop > 1 THEN row[1] ELSE filename
                               /\ position' = IF stop > 2 THEN ParseInt(row[2]).v
                                              ELSE position
                               /\ executedGTidSet' = IF stop > 5 THEN row[5]
                                                     ELSE executedGTidSet
                               /\ IF stop > Len(result.cols)
                                  THEN /\ pc' = "MasterNext"
                                       /\ UNCHANGED <<openRows, err, ret>>
                                  ELSE /\ ret' = [kind |-> "sql: Scan error",
                                                  arg  |-> row[stop]]
                                       /\ pc' = "returned"
                                       /\ CloseRows
                                       /\ UNCHANGED err
                       ELSE /\ scanArgs' = [i \in 1..Len(result.cols) |-> <<>>]
                            /\ ret' = RowsClosed
                            /\ pc' = "returned"
                            /\ CloseRows
                            /\ UNCHANGED <<masterVars, err>>
            ELSE \* Next has fetched the row; the default case returns
                 \* without a Scan
                 /\ rowIdx' = rowIdx + 1
                 /\ ret' = [kind |-> "invalid number of columns",
                            arg |-> Len(result.cols)]
                 /\ pc' = "returned"
                 /\ CloseRows
                 /\ UNCHANGED <<scanArgs, masterVars, err>>
       ELSE /\ pc' = "MasterFile"
            /\ CloseRows
            /\ UNCHANGED <<scanArgs, rowIdx, masterVars, err, ret>>
    /\ UNCHANGED <<gtidVars, statusVars, scraper, result, colIdx, labels,
                   attempts, query, suffix, slaveStatusRows, sendVars, ch>>

\* lines 113-121: the file number of a non-empty File, or its error
MasterFile ==
    /\ pc = "MasterFile"
    /\ IF filename = <<>>
       THEN /\ pc' = "MasterGtid"
            /\ UNCHANGED <<value, ret, openRows>>
       ELSE \E r \in {LogFileNum(filename)} :
               IF r.err # Nil
               THEN /\ ret' = r.err
                    /\ pc' = "returned"
                    /\ CloseRows
                    /\ UNCHANGED value
               ELSE /\ value' = r.value
                    /\ pc' = "MasterSendFileNum"
                    /\ UNCHANGED <<ret, openRows>>
    /\ UNCHANGED <<gtidVars, statusVars, scraper, rowVars, masterVars,
                   attempts, query, suffix, slaveStatusRows, GTIDs, gtidIdx, ch, err>>

\* lines 122-124: the send of the file number, complete once it is received
MasterSendFileNum ==
    /\ pc = "MasterSendFileNum"
    /\ ch' = Append(ch, MasterFileNumMetric(value))
    /\ pc' = "MasterSendPos"
    /\ UNCHANGED <<gtidVars, statusVars, scraper, rowVars, masterVars, queryVars,
                   sendVars, err, ret>>

\* lines 125-127: the send of the position
MasterSendPos ==
    /\ pc = "MasterSendPos"
    /\ ch' = Append(ch, MasterPosMetric(position))
    /\ pc' = "MasterGtid"
    /\ UNCHANGED <<gtidVars, statusVars, scraper, rowVars, masterVars, queryVars,
                   sendVars, err, ret>>

\* lines 130-136: the parse of Executed_Gtid_Set, or its error
MasterGtid ==
    /\ pc = "MasterGtid"
    /\ \E r \in {MasterGtidParse(executedGTidSet)} :
          IF r.err # Nil
          THEN /\ ret' = r.err
               /\ pc' = "returned"
               /\ CloseRows
               /\ UNCHANGED <<GTIDs, gtidIdx>>
          ELSE /\ GTIDs' = r.res
               /\ gtidIdx' = 1
               /\ pc' = IF r.res = <<>> THEN "MasterReturn" ELSE "MasterSendStart"
               /\ UNCHANGED <<ret, openRows>>
    /\ UNCHANGED <<gtidVars, statusVars, scraper, rowVars, masterVars,
                   attempts, query, suffix, slaveStatusRows, value, ch, err>>

\* lines 137-139: the send of the start sample of the set at gtidIdx
MasterSendStart ==
    /\ pc = "MasterSendStart"
    /\ ch' = Append(ch, MasterGtidStartMetric(GTIDs[gtidIdx]))
    /\ pc' = "MasterSendEnd"
    /\ UNCHANGED <<gtidVars, statusVars, scraper, rowVars, masterVars, queryVars,
                   sendVars, err, ret>>

\* lines 140-143: the send of the end sample, and the step of the loop
MasterSendEnd ==
    /\ pc = "MasterSendEnd"
    /\ ch' = Append(ch, MasterGtidEndMetric(GTIDs[gtidIdx]))
    /\ IF gtidIdx < Len(GTIDs)
       THEN gtidIdx' = gtidIdx + 1 /\ pc' = "MasterSendStart"
       ELSE gtidIdx' = gtidIdx /\ pc' = "MasterReturn"
    /\ UNCHANGED <<gtidVars, statusVars, scraper, rowVars, masterVars, queryVars,
                   value, GTIDs, err, ret>>

\* line 146: return nil, with the deferred Close of line 82
MasterReturn ==
    /\ pc = "MasterReturn"
    /\ ret' = Nil
    /\ pc' = "returned"
    /\ CloseRows
    /\ UNCHANGED <<gtidVars, statusVars, scraper, rowVars, masterVars,
                   attempts, query, suffix, slaveStatusRows, sendVars, ch, err>>

ScrapeMasterStatus ==
    \/ MasterQuery \/ MasterCols \/ MasterNext \/ MasterFile
    \/ MasterSendFileNum \/ MasterSendPos \/ MasterGtid
    \/ MasterSendStart \/ MasterSendEnd \/ MasterReturn

InitMaster ==
    /\ pc = "MasterQuery"
    /\ IdleGtid /\ IdleStatus
    /\ scraper = master
    /\ result = NoResult /\ rowIdx = 0 /\ scanArgs = <<>> /\ colIdx = 0
    /\ filename = <<>> /\ position = 0 /\ executedGTidSet = <<>>
    /\ attempts = <<>> /\ query = 0 /\ suffix = 0
    /\ slaveStatusRows = NoRows /\ openRows = {}
    /\ labels = NoLabels /\ value = Float(0) /\ GTIDs = <<>> /\ gtidIdx = 0
    /\ ch = <<>> /\ err = Nil /\ ret = Nil

(***************************************************************************)
(* Slave status scraper: ScrapeSlaveStatus.Scrape                          *)
(***************************************************************************)
slaveStatus == "slave_status"

slaveStatusQueries == <<"SHOW ALL SLAVES STATUS", "SHOW SLAVE STATUS">>
slaveStatusQuerySuffixes == <<" NONBLOCKING", " NOLOCK", "">>

ColMasterHost == <<"M", "a", "s", "t", "e", "r", "_", "H", "o", "s", "t">>
ColMasterUUID == <<"M", "a", "s", "t", "e", "r", "_", "U", "U", "I", "D">>
ColChannelName == <<"C", "h", "a", "n", "n", "e", "l", "_", "N", "a", "m", "e">>
ColConnectionName == <<"C", "o", "n", "n", "e", "c", "t", "i", "o", "n", "_", "n", "a", "m", "e">>
ColExecutedGtidSet == <<"E", "x", "e", "c", "u", "t", "e", "d", "_", "G", "t", "i", "d", "_", "S", "e", "t">>
ColMasterLogFile == <<"M", "a", "s", "t", "e", "r", "_", "L", "o", "g", "_", "F", "i", "l", "e">>
ColRelayMasterLogFile == <<"R", "e", "l", "a", "y", "_", "M", "a", "s", "t", "e", "r", "_", "L", "o", "g", "_", "F", "i", "l", "e">>
ColSlaveIORunning == <<"S", "l", "a", "v", "e", "_", "I", "O", "_", "R", "u", "n", "n", "i", "n", "g">>
ColSecondsBehindMaster == <<"S", "e", "c", "o", "n", "d", "s", "_", "B", "e", "h", "i", "n", "d", "_", "M", "a", "s", "t", "e", "r">>

\* the column lists the status query is modelled to answer with: one of
\* MySQL (a channel per row) and one of MariaDB (a connection per row)
SlaveColumns ==
    { <<ColMasterHost, ColMasterLogFile, ColSlaveIORunning, ColExecutedGtidSet,
        ColChannelName>>,
      <<ColConnectionName, ColRelayMasterLogFile, ColSecondsBehindMaster>> }

\* the raw values a column is modelled to hold
SlaveValues(col) ==
    CASE col = ColMasterHost -> { <<"h">> }
      [] col = ColChannelName -> { <<"c">> }
      [] col = ColConnectionName -> { <<>>, <<"m">> }
      [] col = ColMasterLogFile -> { <<"b", ".", "6">>, <<"b">>,
          <<"a", ".", "5", ".", "b">> }
      [] col = ColRelayMasterLogFile -> { <<"b", ".", "6">>, <<"a", ".", "b", ".", "7">> }
      [] col = ColSlaveIORunning -> { <<"Y", "e", "s">>, <<"x", "x">> }
      [] col = ColSecondsBehindMaster -> { <<"0">>, <<>> }
      [] col = ColExecutedGtidSet -> { <<>>, <<"a", ":", "1", "-", "3">>,
          <<"a", ":", "1", ",", "a", ":", "2">>, <<"a", ":", "x">> }

\* the rows a result with the columns cols may hold
RECURSIVE SlaveRows(_)
SlaveRows(cols) ==
    IF cols = <<>> THEN { <<>> }
    ELSE { <<v>> \o r : v \in SlaveValues(Head(cols)), r \in SlaveRows(Tail(cols)) }

\* lines 39-46; Go's index idx is returned as idx + 1
columnIndex(slaveCols, colName) ==
    IF \E idx \in 1..Len(slaveCols) : slaveCols[idx] = colName
    THEN CHOOSE idx \in 1..Len(slaveCols) :
             /\ slaveCols[idx] = colName
             /\ \A j \in 1..(idx - 1) : slaveCols[j] # colName
    ELSE 0 - 1

\* lines 48-54
columnValue(args, slaveCols, colName) ==
    IF columnIndex(slaveCols, colName) = 0 - 1
    THEN <<>>
    ELSE args[columnIndex(slaveCols, colName)]

SlaveLabelNames == <<"master_host", "master_uuid", "channel_name", "connection_name">>
SlaveGtidLabelNames ==
    <<"master_host", "master_uuid", "channel_name", "connection_name",
      "executed_server_id", "partition">>

\* the four contextual label values, in the order of SlaveLabelNames
SlaveLabelValues(lbl) ==
    <<lbl.masterHost, lbl.masterUUID, lbl.channelName, lbl.connectionName>>

\* lines 131-138: the start sample of a set
SlaveGtidStartMetric(col, item, lbl) ==
    MustNewConstMetric(
        NewDesc(slaveStatus, ToLower(col) \o <<"_", "s", "t", "a", "r", "t">>,
                SlaveGtidLabelNames),
        "gauge", Float(item.FirstTransaction),
        SlaveLabelValues(lbl) \o <<item.ServerId, <<>>>>)

\* lines 139-146: the end sample of a set
SlaveGtidEndMetric(col, item, lbl) ==
    MustNewConstMetric(
        NewDesc(slaveStatus, ToLower(col) \o <<"_", "e", "n", "d">>,
                SlaveGtidLabelNames),
        "gauge", Float(item.LastTransaction),
        SlaveLabelValues(lbl) \o <<item.ServerId, <<>>>>)

\* lines 126-129: the error of the parse, or the sets whose samples the loop
\* of line 130 sends
SlaveGtidResult(col, parsed, lbl) ==
    IF parsed.err # Nil
    THEN [err |-> parsed.err, samples |-> <<>>, GTIDs |-> <<>>]
    ELSE [err |-> Nil, samples |-> <<>>, GTIDs |-> parsed.res]

\* lines 150-164: the error of the file number num, or its sample
SlaveLogFileResult(col, num, lbl) ==
    IF num.err # Nil
    THEN [err |-> num.err, samples |-> <<>>, GTIDs |-> <<>>]
    ELSE [err |-> Nil,
          samples |-> << MustNewConstMetric(
                             NewDesc(slaveStatus, ToLower(col) \o <<"_", "n", "u", "m">>,
                                     SlaveLabelNames),
                             "untyped", num.value, SlaveLabelValues(lbl)) >>,
          GTIDs |-> <<>>]

\* SlaveGenericResult with an unclassified value treated as a failure of the
\* call instead of being skipped
SlaveGenericResultStrict(col, status, lbl) ==
    IF status.ok
    THEN [err |-> Nil,
          samples |-> << MustNewConstMetric(
                             NewDesc(slaveStatus, ToLower(col), SlaveLabelNames),
                             "untyped", status.value, SlaveLabelValues(lbl)) >>,
          GTIDs |-> <<>>]
    ELSE [err |-> [kind |-> "unparsable value", arg |-> col], samples |-> <<>>,
          GTIDs |-> <<>>]

\* lines 166-178: the sample of a value parseStatus classified, or nothing
SlaveGenericResult(col, status, lbl) ==
    IF status.ok
    THEN [err |-> Nil,
          samples |-> << MustNewConstMetric(
                             NewDesc(slaveStatus, ToLower(col), SlaveLabelNames),
                             "untyped", status.value, SlaveLabelValues(lbl)) >>,
          GTIDs |-> <<>>]
    ELSE [err |-> Nil, samples |-> <<>>, GTIDs |-> <<>>]

\* SlaveDispatch with the error of a failing specialized derivation dropped,
\* the column skipped like an unparsable generic value.
SlaveDispatchSkipFailure(col, raw, lbl) ==
    IF col = ColExecutedGtidSet
    THEN [SlaveGtidResult(col, ParseGTID(raw), lbl) EXCEPT !.err = Nil]
    ELSE IF col \in {ColMasterLogFile, ColRelayMasterLogFile}
    THEN [SlaveLogFileResult(col, LogFileNum(raw), lbl) EXCEPT !.err = Nil]
    ELSE SlaveGenericResult(col, parseStatus(raw), lbl)

\* lines 124-179: the switch on the column name, for the raw value of the
\* column: the error the call returns, or the sample the case sends, or the
\* sets whose samples the loop of the case "Executed_Gtid_Set" sends
SlaveDispatch(col, raw, lbl) ==
    IF col = ColExecutedGtidSet
    THEN SlaveGtidResult(col, ParseGTID(raw), lbl)
    ELSE IF col \in {ColMasterLogFile, ColRelayMasterLogFile}
    THEN SlaveLogFileResult(col, LogFileNum(raw), lbl)
    ELSE SlaveGenericResult(col, parseStatus(raw), lbl)

\* the text of the execution at loop position (q, j): the bare query for
\* j = 0 (line 82), fmt.Sprint(query, suffix) otherwise (line 86)
QueryText(q, j) ==
    IF j = 0 THEN slaveStatusQueries[q]
    ELSE slaveStatusQueries[q] \o slaveStatusQuerySuffixes[j]

\* the value of err after an execution: the nil error, or the error of this
\* execution, with the first error kept once there is one
QueryErrKeepFirst(prev, n, text, ok) ==
    IF ok THEN Nil
    ELSE IF prev # Nil THEN prev
    ELSE [kind |-> "query failed", n |-> n, text |-> text]

\* the value db.QueryContext assigns to err (lines 82 and 86): the nil error,
\* or the error of execution n
QueryErr(prev, n, text, ok) ==
    IF ok THEN Nil ELSE [kind |-> "query failed", n |-> n, text |-> text]

\* Where the loops of lines 81-94 stand after the execution at (q, j): a bare
\* query that succeeds breaks the outer loop; a suffixed one that succeeds
\* breaks the inner loop only, and the outer loop goes on with the next query.
AfterExecution(q, j, ok) ==
    IF j = 0
    THEN IF ok
         THEN [done |-> TRUE, query |-> q, suffix |-> j]
         ELSE [done |-> FALSE, query |-> q, suffix |-> 1]
    ELSE IF ~ok /\ j < Len(slaveStatusQuerySuffixes)
    THEN [done |-> FALSE, query |-> q, suffix |-> j + 1]
    ELSE IF q < Len(slaveStatusQueries)
    THEN [done |-> FALSE, query |-> q + 1, suffix |-> 0]
    ELSE [done |-> TRUE, query |-> q, suffix |-> j]

\* lines 81-94: one db.QueryContext execution of the fallback loops
SlaveQuery ==
    /\ pc = "SlaveQuery"
    /\ \E ok \in BOOLEAN :
          /\ attempts' = Append(attempts, [text |-> QueryText(query, suffix), ok |-> ok])
          /\ err' = QueryErr(err, Len(attempts) + 1, QueryText(query, suffix), ok)
          /\ IF ok
             THEN /\ slaveStatusRows' = Len(attempts) + 1
                  /\ openRows' = openRows \cup {Len(attempts) + 1}
                  /\ \E cols \in SlaveColumns, n \in 0..MaxRows :
                         result' = [cols |-> cols, nrows |-> n]
             ELSE /\ slaveStatusRows' = NoRows
                  /\ result' = NoResult
                  /\ UNCHANGED openRows
          /\ query' = AfterExecution(query, suffix, ok).query
          /\ suffix' = AfterExecution(query, suffix, ok).suffix
          /\ pc' = IF AfterExecution(query, suffix, ok).done
                   THEN "SlaveCheckErr" ELSE "SlaveQuery"
    /\ UNCHANGED <<gtidVars, statusVars, scraper, rowIdx, scanArgs, colIdx, labels,
                   masterVars, sendVars, ch, ret>>

\* lines 95-98: return the error left in err, or go on with the result set
\* held (its Close deferred)
SlaveCheckErr ==
    /\ pc = "SlaveCheckErr"
    /\ IF err # Nil
       THEN /\ ret' = err
            /\ pc' = "returned"
       ELSE /\ pc' = "SlaveCols"
            /\ UNCHANGED ret
    /\ UNCHANGED <<gtidVars, statusVars, scraper, rowVars, masterVars, queryVars,
                   sendVars, ch, err>>

\* lines 100-103: Columns(); a failure returns its error
SlaveCols ==
    /\ pc = "SlaveCols"
    /\ \E ok \in BOOLEAN :
          IF ok
          THEN /\ pc' = "SlaveNext"
               /\ UNCHANGED <<err, ret, openRows>>
          ELSE /\ err' = RowsClosed
               /\ ret' = RowsClosed
               /\ pc' = "returned"
               /\ CloseRows
    /\ UNCHANGED <<gtidVars, statusVars, scraper, rowVars, masterVars,
                   attempts, query, suffix, slaveStatusRows, sendVars, ch>>

\* lines 105-121: fetch the next row; scan it and read its contextual labels,
\* or return the error of Scan; at the end of the rows return nil
SlaveNext ==
    /\ pc = "SlaveNext"
    /\ IF rowIdx < result.nrows
       THEN /\ rowIdx' = rowIdx + 1
            /\ \E ok \in BOOLEAN :
                  IF ok
                  THEN /\ \E row \in SlaveRows(result.cols) :
                             /\ scanArgs' = row
                             /\ labels' =
                                   [masterUUID |-> columnValue(row, result.cols, ColMasterUUID),
                                    masterHost |-> columnValue(row, result.cols, ColMasterHost),
                                    channelName |-> columnValue(row, result.cols, ColChannelName),
                                    connectionName |->
                                        columnValue(row, result.cols, ColConnectionName)]
                       /\ colIdx' = 1
                       /\ pc' = "SlaveColumn"
                       /\ UNCHANGED <<ret, openRows>>
                  ELSE /\ scanArgs' = [i \in 1..Len(result.cols) |-> <<>>]
                       /\ ret' = RowsClosed
                       /\ pc' = "returned"
                       /\ CloseRows
                       /\ UNCHANGED <<labels, colIdx>>
       ELSE /\ ret' = Nil
            /\ pc' = "returned"
            /\ CloseRows
            /\ UNCHANGED <<scanArgs, labels, rowIdx, colIdx>>
    /\ UNCHANGED <<gtidVars, statusVars, scraper, result, masterVars,
                   attempts, query, suffix, slaveStatusRows, sendVars, ch, err>>

\* lines 123-180: one pass of the column loop up to its return, its one send,
\* or the head of the loop over the parsed sets
SlaveColumn ==
    /\ pc = "SlaveColumn"
    /\ \E r \in {SlaveDispatch(result.cols[colIdx], scanArgs[colIdx], labels)} :
          IF r.err # Nil
          THEN /\ ret' = r.err
               /\ pc' = "returned"
               /\ CloseRows
               /\ UNCHANGED <<ch, colIdx, GTIDs, gtidIdx>>
          ELSE IF r.GTIDs # <<>>
          THEN /\ GTIDs' = r.GTIDs
               /\ gtidIdx' = 1
               /\ pc' = "SlaveSendStart"
               /\ UNCHANGED <<ch, colIdx, ret, openRows>>
          ELSE /\ ch' = ch \o r.samples
               /\ IF colIdx < Len(result.cols)
                  THEN colIdx' = colIdx + 1 /\ pc' = "SlaveColumn"
                  ELSE colIdx' = colIdx /\ pc' = "SlaveNext"
               /\ UNCHANGED <<ret, openRows, GTIDs, gtidIdx>>
    /\ UNCHANGED <<gtidVars, statusVars, scraper, result, rowIdx, scanArgs, labels,
                   masterVars, attempts, query, suffix, slaveStatusRows, value, err>>

\* lines 131-138: the send of the start sample of the set at gtidIdx
SlaveSendStart ==
    /\ pc = "SlaveSendStart"
    /\ ch' = Append(ch, SlaveGtidStartMetric(result.cols[colIdx], GTIDs[gtidIdx], labels))
    /\ pc' = "SlaveSendEnd"
    /\ UNCHANGED <<gtidVars, statusVars, scraper, rowVars, masterVars, queryVars,
                   sendVars, err, ret>>

\* lines 139-147: the send of the end sample, and the step of the loop over
\* the sets, after which the column loop goes on
SlaveSendEnd ==
    /\ pc = "SlaveSendEnd"
    /\ ch' = Append(ch, SlaveGtidEndMetric(result.cols[colIdx], GTIDs[gtidIdx], labels))
    /\ IF gtidIdx < Len(GTIDs)
       THEN /\ gtidIdx' = gtidIdx + 1
            /\ pc' = "SlaveSendStart"
            /\ UNCHANGED colIdx
       ELSE /\ gtidIdx' = gtidIdx
            /\ IF colIdx < Len(result.cols)
               THEN colIdx' = colIdx + 1 /\ pc' = "SlaveColumn"
               ELSE colIdx' = colIdx /\ pc' = "SlaveNext"
    /\ UNCHANGED <<gtidVars, statusVars, scraper, result, rowIdx, scanArgs, labels,
                   masterVars, queryVars, value, GTIDs, err, ret>>

ScrapeSlaveStatus ==
    \/ SlaveQuery \/ SlaveCheckErr \/ SlaveCols \/ SlaveNext \/ SlaveColumn
    \/ SlaveSendStart \/ SlaveSendEnd

InitSlave ==
    /\ pc = "SlaveQuery"
    /\ IdleGtid /\ IdleStatus
    /\ scraper = slaveStatus
    /\ result = NoResult /\ rowIdx = 0 /\ scanArgs = <<>> /\ colIdx = 0
    /\ filename = <<>> /\ position = 0 /\ executedGTidSet = <<>>
    /\ attempts = <<>> /\ query = 1 /\ suffix = 0
    /\ slaveStatusRows = NoRows /\ openRows = {}
    /\ labels = NoLabels /\ value = Float(0) /\ GTIDs = <<>> /\ gtidIdx = 0
    /\ ch = <<>> /\ err = Nil /\ ret = Nil

(***************************************************************************)
(* Specification of one Scrape call of either scraper.                     *)
(***************************************************************************)
Init == InitMaster \/ InitSlave

Next == ScrapeMasterStatus \/ ScrapeSlaveStatus

Spec == Init /\ [][Next]_vars

(***************************************************************************)
(* Specification of a parseStatus call.                                    *)
(***************************************************************************)
InitStatus ==
    /\ pc = "parseStatus"
    /\ data \in StatusInputs
    /\ statusRet = NoStatusRet
    /\ IdleGtid /\ IdleScrape

CallParseStatus ==
    /\ pc = "parseStatus"
    /\ statusRet' = parseStatus(data)
    /\ pc' = "returned"
    /\ UNCHANGED <<data, gtidVars, scrapeVars>>

NextStatus == CallParseStatus

SpecStatus == InitStatus /\ [][NextStatus]_vars

(***************************************************************************)
(* The transaction-set grammar, stated on the text alone:                  *)
(*   token = serverId ":" range (":" range)*,  range = N | N "-" M         *)
(***************************************************************************)
Tokens(str) == [k \in 1..Len(Split(str, ",")) |-> TrimSpace(Split(str, ",")[k])]

RangeParts(tok) == Tail(Split(tok, ":"))

\* a decimal numeral as strconv reads one: digits, after an optional sign
IsNumeral(x) ==
    LET b == IF x # <<>> /\ x[1] = "+" THEN Tail(x) ELSE x
    IN  b # <<>> /\ AllDigits(b)

DashCount(x) == Cardinality({i \in 1..Len(x) : x[i] = "-"})

MalformedRange(part) ==
    \/ part = <<>>
    \/ DashCount(part) > 1
    \/ \E j \in 1..Len(Split(part, "-")) : ~IsNumeral(Split(part, "-")[j])

MalformedToken(tok) ==
    \/ ~Contains(tok, ":")
    \/ \E i \in 1..Len(RangeParts(tok)) : MalformedRange(RangeParts(tok)[i])

\* a digit run denoting a transaction number, an int64
WithinInt64(x) ==
    ~DigitsExceed(x, <<"9", "2", "2", "3", "3", "7", "2", "0", "3", "6", "8", "5",
                       "4", "7", "7", "5", "8", "0", "7">>)

WellFormedRange(part) ==
    /\ DashCount(part) <= 1
    /\ \A j \in 1..Len(Split(part, "-")) :
           /\ Split(part, "-")[j] # <<>>
           /\ AllDigits(Split(part, "-")[j])
           /\ WithinInt64(Split(part, "-")[j])

WellFormedToken(tok) ==
    /\ Contains(tok, ":")
    /\ \A i \in 1..Len(RangeParts(tok)) : WellFormedRange(RangeParts(tok)[i])

WellFormed(str) == \A k \in 1..Len(Tokens(str)) : WellFormedToken(Tokens(str)[k])

\* the range a well-formed range text denotes
WrittenRange(part) ==
    LET sss == Split(part, "-")
    IN  [Start |-> DecimalValue(sss[1]), End |-> DecimalValue(sss[Len(sss)])]

\* C1: a ParseGTID call on a string holding at least one malformed token (no
\* ':', an empty range part, a range part with more than one '-', a
\* non-numeric start or end) returns an error and the nil result, whatever
\* well-formed tokens precede or follow it.
C1_AllOrNothing ==
    (pc = "returned" /\ \E k \in 1..Len(Tokens(s)) : MalformedToken(Tokens(s)[k]))
        => (gtidRet.err # Nil /\ gtidRet.res = <<>>)

\* a malformed token between two well-formed ones, after the call returned
C1_Witness ==
    /\ pc = "returned"
    /\ Len(Tokens(s)) >= 3
    /\ WellFormedToken(Tokens(s)[1])
    /\ MalformedToken(Tokens(s)[2])
    /\ WellFormedToken(Tokens(s)[3])
    /\ gtidRet.err # Nil

\* C2: on a well-formed string ParseGTID returns one set per token in input
\* order; each set holds the token's ranges in the order written, a single
\* number N as {N,N}; FirstTransaction is the first range's start and
\* LastTransaction the last range's end.
C2_OrderPreserved ==
    (pc = "returned" /\ WellFormed(s)) =>
        /\ gtidRet.err = Nil
        /\ Len(gtidRet.res) = Len(Tokens(s))
        /\ \A k \in 1..Len(Tokens(s)) :
              LET parts == RangeParts(Tokens(s)[k])
                  g     == gtidRet.res[k]
              IN  /\ g.ServerId = Split(Tokens(s)[k], ":")[1]
                  /\ Len(g.Transactions) = Len(parts)
                  /\ \A i \in 1..Len(parts) :
                         g.Transactions[i] = WrittenRange(parts[i])
                  /\ g.FirstTransaction = WrittenRange(parts[1]).Start
                  /\ g.LastTransaction = WrittenRange(parts[Len(parts)]).End
                  /\ g.FirstTransaction = g.Transactions[1].Start
                  /\ g.LastTransaction = g.Transactions[Len(g.Transactions)].End

\* two sets returned, the first with a range followed by a smaller single number
C2_Witness ==
    /\ pc = "returned"
    /\ WellFormed(s)
    /\ Len(gtidRet.res) = 2
    /\ Len(gtidRet.res[1].Transactions) = 2
    /\ gtidRet.res[1].Transactions[1].Start > gtidRet.res[1].Transactions[2].Start
    /\ gtidRet.res[1].Transactions[2].Start = gtidRet.res[1].Transactions[2].End

\* C8 as stated: every range of a successful ParseGTID result has Start <= End.
C8_StartLeEnd ==
    (pc = "returned" /\ gtidRet.err = Nil) =>
        \A k \in 1..Len(gtidRet.res) :
            \A i \in 1..Len(gtidRet.res[k].Transactions) :
                gtidRet.res[k].Transactions[i].Start <= gtidRet.res[k].Transactions[i].End

\* C8 amended: a range of a successful ParseGTID result has Start <= End
\* exactly when it was written as a single number or as N-M with N <= M; the
\* parser checks no ordering and returns N-M with N > M as {N, M}.
C8_StartLeEndAsWritten ==
    (pc = "returned" /\ gtidRet.err = Nil) =>
        \A k \in 1..Len(gtidRet.res) :
            /\ Len(gtidRet.res[k].Transactions) = Len(RangeParts(Tokens(s)[k]))
            /\ \A i \in 1..Len(gtidRet.res[k].Transactions) :
                  LET t   == gtidRet.res[k].Transactions[i]
                      sss == Split(RangeParts(Tokens(s)[k])[i], "-")
                  IN  (t.Start <= t.End) <=>
                          (Len(sss) = 1 \/ ParseInt(sss[1]).v <= ParseInt(sss[2]).v)

\* a successful result holding a decreasing range and an increasing one
C8_Witness ==
    /\ pc = "returned"
    /\ gtidRet.err = Nil
    /\ \E k \in 1..Len(gtidRet.res) :
          \E i, j \in 1..Len(gtidRet.res[k].Transactions) :
              /\ gtidRet.res[k].Transactions[i].Start > gtidRet.res[k].Transactions[i].End
              /\ i # j
              /\ gtidRet.res[k].Transactions[j].Start <= gtidRet.res[k].Transactions[j].End

\* the text after the last '.' of a string holding one
LastSegment(str) == Split(str, ".")[Len(Split(str, "."))]

\* a non-empty prefix, a '.', and a final non-empty run of digits
HasNumericSuffix(str) ==
    /\ Contains(str, ".")
    /\ LastSegment(str) # <<>>
    /\ AllDigits(LastSegment(str))
    /\ Len(str) > Len(LastSegment(str)) + 1

\* C6: for a value that is no keyword and no timestamp and that is a non-empty
\* prefix followed by a final '.'-separated run of digits, parseStatus returns
\* that final integer with ok = TRUE.
C6_TrailingInteger ==
    (/\ pc = "returned"
     /\ ToLower(data) \notin KeywordsOne \cup KeywordsZero
     /\ ~timeParse(data).ok
     /\ HasNumericSuffix(data))
        => statusRet = [value |-> Float(DecimalValue(LastSegment(data))), ok |-> TRUE]

(***************************************************************************)
(* Claims about the Scrape calls.                                          *)
(***************************************************************************)
\* the candidate executions in the order the loops reach them
Candidates ==
    << QueryText(1, 0), QueryText(1, 1), QueryText(1, 2), QueryText(1, 3),
       QueryText(2, 0), QueryText(2, 1), QueryText(2, 2), QueryText(2, 3) >>

NoneSucceeded(n) == \A i \in 1..n : ~attempts[i].ok

\* C3: the slave scrape attempts the candidate executions in their fixed
\* order; the first execution that succeeds is the one whose result set is
\* scraped, and no query is executed after it.
C3_FirstSuccessUsed ==
    scraper = slaveStatus =>
        /\ \A i \in 1..Len(attempts) :
               NoneSucceeded(i - 1) => attempts[i].text = Candidates[i]
        /\ NoneSucceeded(Len(attempts) - 1)
        /\ pc \in {"SlaveCols", "SlaveNext", "SlaveColumn", "SlaveSendStart",
                  "SlaveSendEnd"} =>
               /\ slaveStatusRows \in 1..Len(attempts)
               /\ attempts[slaveStatusRows].ok
               /\ NoneSucceeded(slaveStatusRows - 1)

\* C4: when every execution the slave scrape attempted failed, the call
\* returns the error of the last execution and has pushed no sample.
C4_AllFailLastError ==
    (/\ scraper = slaveStatus
     /\ pc = "returned"
     /\ NoneSucceeded(Len(attempts)))
        => /\ Len(attempts) = Len(Candidates)
           /\ ret = [kind |-> "query failed", n |-> Len(attempts),
                     text |-> attempts[Len(attempts)].text]
           /\ ch = <<>>

\* the slave scrape returned after all eight executions failed
C4_Witness ==
    /\ scraper = slaveStatus
    /\ pc = "returned"
    /\ Len(attempts) = 8
    /\ NoneSucceeded(8)
    /\ ret # Nil

IsInteger(x) == x # <<>> /\ AllDigits(x)

\* a name of the form name.N: one '.', followed by digits
IsNameDotN(x) == Len(Split(x, ".")) = 2 /\ IsInteger(Split(x, ".")[2])

\* the start or end sample the master scrape is to push at place i for the
\* transaction-set text g
WrittenMasterSample(g, i) ==
    LET tok == Tokens(g)[(i + 1) \div 2] IN
    IF i % 2 = 1
    THEN [desc |-> masterExecutedGtidStart, type |-> "gauge",
          value |-> Float(WrittenRange(RangeParts(tok)[1]).Start),
          labels |-> <<Split(tok, ":")[1], <<>>>>]
    ELSE [desc |-> masterExecutedGtidEnd, type |-> "gauge",
          value |-> Float(WrittenRange(RangeParts(tok)[Len(RangeParts(tok))]).End),
          labels |-> <<Split(tok, ":")[1], <<>>>>]

\* the master scrape returned from a result of one row and five columns
\* whose File is name.N, whose Position is an integer and whose
\* Executed_Gtid_Set is well formed
C5_Case ==
    /\ scraper = master
    /\ pc = "returned"
    /\ result.nrows = 1
    /\ Len(result.cols) = 5
    /\ rowIdx = 1
    /\ IsNameDotN(scanArgs[1])
    /\ IsInteger(scanArgs[2])
    /\ WellFormed(scanArgs[5])

\* C5: in that case the call returns no error and has pushed exactly: the
\* file sequence number N, the position, and for each transaction set in
\* input order a start sample (FirstTransaction) and an end sample
\* (LastTransaction), labeled with the set's server id and an empty partition.
C5_MasterSamples ==
    C5_Case =>
        /\ ret = Nil
        /\ Len(ch) = 2 + 2 * Len(Tokens(scanArgs[5]))
        /\ ch[1] = [desc |-> masterBinlogFileNum, type |-> "gauge",
                    value |-> Float(DecimalValue(Split(scanArgs[1], ".")[2])),
                    labels |-> <<>>]
        /\ ch[2] = [desc |-> masterBinlogPos, type |-> "gauge",
                    value |-> Float(DecimalValue(scanArgs[2])), labels |-> <<>>]
        /\ \A i \in 1..(2 * Len(Tokens(scanArgs[5]))) :
               ch[2 + i] = WrittenMasterSample(scanArgs[5], i)

\* the case with two transaction sets, the first of several ranges
C5_Witness ==
    /\ C5_Case
    /\ Len(Tokens(scanArgs[5])) = 2
    /\ Len(RangeParts(Tokens(scanArgs[5])[1])) = 3
    /\ Len(ch) = 6

LogFileColumns == {ColMasterLogFile, ColRelayMasterLogFile}

LogFileErrors == {"split by . item not enough", "strconv.ParseFloat"}

\* C7: the log-file number the scrapers derive from a dotted file name is the
\* final '.'-delimited segment, and the scrape fails whenever that segment is
\* not an integer, for names of any number of dots.  Stated on the master
\* scrape after its file block and on the slave scrape after a log-file column.
C7_FinalSegment ==
    /\ (scraper = master /\ pc = "MasterGtid" /\ filename # <<>>) =>
           /\ IsInteger(LastSegment(filename))
           /\ ch[1].value = Float(DecimalValue(LastSegment(filename)))
    /\ (scraper = master /\ pc = "returned" /\ ret.kind \in LogFileErrors) =>
           ~IsInteger(LastSegment(filename))
    /\ (/\ scraper = slaveStatus /\ pc = "SlaveColumn" /\ colIdx > 1
        /\ result.cols[colIdx - 1] \in LogFileColumns) =>
           /\ IsInteger(LastSegment(scanArgs[colIdx - 1]))
           /\ ch[Len(ch)].value = Float(DecimalValue(LastSegment(scanArgs[colIdx - 1])))
    /\ (scraper = slaveStatus /\ pc = "returned" /\ ret.kind \in LogFileErrors) =>
           ~IsInteger(LastSegment(scanArgs[colIdx]))

\* C9: within one Scrape call no two samples pushed to the sink have the
\* same descriptor and the same label values.
C9_NoDuplicateSamples ==
    \A i, j \in 1..Len(ch) :
        (i # j) => ~(ch[i].desc = ch[j].desc /\ ch[i].labels = ch[j].labels)

GtidErrors ==
    {"transaction item is too little", "cut by '-' more than 2 item",
     "parse to int64 failed"}

\* the step about to be taken is a specialized derivation that fails: an
\* unparsable Executed_Gtid_Set value or a malformed dotted log-file name
DerivationFails ==
    \/ /\ pc = "MasterFile" /\ filename # <<>>
       /\ LogFileNum(filename).err # Nil
    \/ /\ pc = "MasterGtid" /\ executedGTidSet # <<>>
       /\ \E k \in 1..Len(Tokens(executedGTidSet)) :
              MalformedToken(Tokens(executedGTidSet)[k])
    \/ /\ pc = "SlaveColumn" /\ result.cols[colIdx] = ColExecutedGtidSet
       /\ \E k \in 1..Len(Tokens(scanArgs[colIdx])) :
              MalformedToken(Tokens(scanArgs[colIdx])[k])
    \/ /\ pc = "SlaveColumn" /\ result.cols[colIdx] \in LogFileColumns
       /\ LogFileNum(scanArgs[colIdx]).err # Nil

\* C10: the step of a failing specialized derivation returns an error and
\* pushes nothing, leaving every sample pushed before it in the sink; once the
\* call has returned no sample is pushed.
C10_NoSampleAfterFailure ==
    [][ /\ DerivationFails => (pc' = "returned" /\ ret' # Nil /\ ch' = ch)
        /\ pc = "returned" => ch' = ch ]_vars

\* the slave scrape returned the error of a derivation with samples pushed
\* before it, and with columns and rows left after the failing value
C10_Witness ==
    /\ scraper = slaveStatus
    /\ pc = "returned"
    /\ ret.kind \in GtidErrors \cup LogFileErrors
    /\ ch # <<>>
    /\ colIdx < Len(result.cols)
    /\ rowIdx < result.nrows
    /\ colIdx < Len(result.cols)
    /\ rowIdx < result.nrows

\* the columns the switch handles specially
SpecialColumns == {ColExecutedGtidSet} \cup LogFileColumns

\* the value the scanned row holds for the column named name, the empty
\* string when the result has no such column
RowValue(name) ==
    IF \E i \in 1..Len(result.cols) : result.cols[i] = name
    THEN scanArgs[CHOOSE i \in 1..Len(result.cols) : result.cols[i] = name]
    ELSE <<>>

\* the one sample a classified generic column is to yield
GenericSample(col, raw) ==
    [desc |-> [namespace |-> "mysql", subsystem |-> "slave_status",
               name |-> ToLower(col),
               labelNames |-> <<"master_host", "master_uuid", "channel_name",
                                "connection_name">>],
     type |-> "untyped",
     value |-> parseStatus(raw).value,
     labels |-> <<RowValue(ColMasterHost), RowValue(ColMasterUUID),
                  RowValue(ColChannelName), RowValue(ColConnectionName)>>]

\* the step about to be taken handles a column that is not specially handled
GenericStep ==
    /\ scraper = slaveStatus
    /\ pc = "SlaveColumn"
    /\ result.cols[colIdx] \notin SpecialColumns

\* C11: in the slave scrape a column that is not specially handled and whose
\* value parseStatus cannot classify yields no sample and no error, and the
\* scrape goes on with the remaining columns and rows; one whose value
\* parseStatus classifies yields exactly one untyped sample named after the
\* lower-cased column, carrying the row's four contextual label values, the
\* empty string for a contextual column the result lacks.
C11_GenericColumn ==
    [][ GenericStep =>
          /\ ret' = Nil
          /\ pc' = IF colIdx < Len(result.cols) THEN "SlaveColumn" ELSE "SlaveNext"
          /\ colIdx' = IF colIdx < Len(result.cols) THEN colIdx + 1 ELSE colIdx
          /\ rowIdx' = rowIdx
          /\ IF parseStatus(scanArgs[colIdx]).ok
             THEN ch' = Append(ch, GenericSample(result.cols[colIdx], scanArgs[colIdx]))
             ELSE ch' = ch ]_vars

\* the slave scrape returned nil from a row in which a generic column held
\* an unclassifiable value and a later generic column was classified, with a
\* contextual column absent from the result
C11_Witness ==
    /\ scraper = slaveStatus
    /\ pc = "returned"
    /\ ret = Nil
    /\ rowIdx = result.nrows
    /\ Len(scanArgs) = Len(result.cols)
    /\ \E i, j \in 1..Len(result.cols) :
          /\ i < j
          /\ result.cols[i] \notin SpecialColumns
          /\ result.cols[j] \notin SpecialColumns
          /\ ~parseStatus(scanArgs[i]).ok
          /\ parseStatus(scanArgs[j]).ok
          /\ ch # <<>>
          /\ ch[Len(ch)] = GenericSample(result.cols[j], scanArgs[j])
          /\ ch[Len(ch)].labels[2] = <<>>

\* C12: whatever executions of the fallback loop succeed or fail, every result
\* set a query execution of the slave scrape opened is closed by the time the
\* call returns.
C12_AllRowsClosed ==
    (scraper = slaveStatus /\ pc = "returned") => openRows = {}

\* the step about to be taken is the transaction-set block of the master
\* scrape with an empty Executed_Gtid_Set
MasterEmptyGtid ==
    /\ scraper = master
    /\ pc = "MasterGtid"
    /\ executedGTidSet = <<>>

\* the step about to be taken is the Executed_Gtid_Set column of the slave
\* scrape with an empty value
SlaveEmptyGtid ==
    /\ scraper = slaveStatus
    /\ pc = "SlaveColumn"
    /\ result.cols[colIdx] = ColExecutedGtidSet
    /\ scanArgs[colIdx] = <<>>

\* C13: the two scrapers treat an empty Executed_Gtid_Set differently.  The
\* master scrape skips it: no transaction-set sample and no error.  The slave
\* scrape hands it to ParseGTID, which fails: the call returns that error and
\* pushes nothing for that column nor for the columns and rows after it.
C13_EmptyGtidSet ==
    [][ /\ MasterEmptyGtid => (pc' = "MasterReturn" /\ ch' = ch)
        /\ (scraper = master /\ pc = "MasterReturn") =>
              (pc' = "returned" /\ ret' = Nil /\ ch' = ch)
        /\ SlaveEmptyGtid =>
              /\ pc' = "returned"
              /\ ret' = [kind |-> "transaction item is too little", arg |-> <<>>]
              /\ ch' = ch
              /\ rowIdx' = rowIdx /\ colIdx' = colIdx
        /\ (scraper = slaveStatus /\ pc = "returned") => ch' = ch ]_vars

\* the slave scrape returned the error of ParseGTID on an empty
\* Executed_Gtid_Set, with a sample pushed before it and a column and a row
\* left after it
C13_Witness ==
    /\ scraper = slaveStatus
    /\ pc = "returned"
    /\ ret.kind = "transaction item is too little"
    /\ result.cols[colIdx] = ColExecutedGtidSet
    /\ scanArgs[colIdx] = <<>>
    /\ ch # <<>>
    /\ colIdx < Len(result.cols)
    /\ rowIdx < result.nrows

\* the master scrape returned nil from a row of five columns whose
\* Executed_Gtid_Set is empty, having pushed the two samples of the file block
C13_MasterSkipped ==
    /\ scraper = master
    /\ pc = "returned"
    /\ ret = Nil
    /\ Len(result.cols) = 5
    /\ rowIdx = 1
    /\ scanArgs[5] = <<>>
    /\ Len(ch) = 2

====
